---- MODULE Spec2Model ----
(***************************************************************************)
(* Streaming state machines of the claudish proxy: the translation of an   *)
(* upstream SSE body into an Anthropic SSE event stream, as done by        *)
(*   - createStreamingResponseHandler (handlers/shared/openai-compat.ts),  *)
(*     used by the local and the direct-OpenAI handlers ("compat"),        *)
(*   - OpenRouterHandler.handleStreamingResponse ("openrouter"),           *)
(*   - GeminiHandler.handleStreamingResponse ("gemini"),                   *)
(*   - AnthropicCompatHandler.handleStreamingResponse ("anthropic").       *)
(*                                                                         *)
(* One behaviour is one stream.  JavaScript runs a callback to its next    *)
(* await without interleaving, so one action is one such run: the          *)
(* processing of one upstream data line, the part of finalize before its   *)
(* await, the part after it, one tick of the ping timer, the stream's      *)
(* cancel callback.  An upstream chunk that carries several delta fields   *)
(* is processed field after field in a fixed order (reasoning, text, tool  *)
(* calls, finish reason), which is what a sequence of chunks with one      *)
(* field each does; the model draws chunks with one field.                 *)
(*                                                                         *)
(* Model routing (createProxyServer in proxy-server.ts with the local and  *)
(* the remote provider registry) is a second state machine, RouterSpec:    *)
(* one behaviour is the life of one proxy process, one action is one       *)
(* request up to the choice of its handler.  getHandlerForRequest has no   *)
(* await, so it runs as one step.  The stream variables rest in            *)
(* RouterSpec, the router variables rest in Spec.                          *)
(***************************************************************************)
EXTENDS Integers, Sequences, FiniteSets, TLC

\* Bounds of the exploration
MaxChunks == 3
MaxPings == 1
MaxToolIdx == 0

Handlers == {"compat", "openrouter", "gemini", "anthropic"}
ToolIdx == 0..MaxToolIdx
NoRef == -1
Extracted == -2

\* What the arguments of a structured tool call amount to once complete:
\* all required parameters present, some missing but inferable from the
\* accumulated text, some missing and not inferable.
ArgQuality == {"complete", "inferable", "missing"}

\* What adapter.processTextContent and the accumulated-text tests make of a
\* text delta: cleaned text that is plain, cleaned text that is empty,
\* text that puts a structured tool-call signature in the buffer without a
\* complete call, text that completes a call the extractor finds, plain
\* text that brings the buffer to 1000 characters or more, and, with the
\* Grok adapter, text that completes exactly one <xai:function_call>
\* element in the adapter's buffer with no other text around it.
TextKinds == {"plain", "filtered", "sig", "call", "long", "xai"}

VARIABLES
  handler,        \* which handler serves the stream
  schemas,        \* toolSchemas is a non-empty array
  pc,             \* position of start(): "read", "finalize" (awaiting afterStreamComplete), "end"
  reader,         \* upstream body reader: "reading", "ended", "failed", "abandoned"
  out,            \* events enqueued to the client, in order
  isClosed,       \* the closure's isClosed flag
  pingTimer,      \* the setInterval timer is armed
  streamClosed,   \* controller.close() was called
  cancelled,      \* the client disconnected (cancel callback invoked)
  state,          \* StreamingState
  reason,         \* argument of the running finalize
  nChunks,        \* upstream data lines processed
  nPings,         \* timer ticks that emitted a ping
  finalizeRuns,   \* executions of the body of finalize
  tokenUpdates,   \* calls of the token-accounting update
  readAfterCancel,\* an upstream chunk was read and processed after the cancel
  hasUsage,       \* AnthropicCompatHandler: usage already recorded
  xaiCalls,       \* text deltas that completed an <xai:function_call> element
  lastMalformed,  \* number of the last data line whose JSON.parse threw, 0 if none
  \* createProxyServer (proxy-server.ts)
  monitorMode,    \* the server was started in monitor (observer) mode
  model,          \* the explicitly selected model, NoModel if none
  modelMap,       \* the profile map: defined, and its opus, sonnet, haiku entries
  registry,       \* which of the two remote provider registries is built in
  env,            \* credential environment variables that are set
  openRouterHandlers,     \* target model -> handler instance
  localProviderHandlers,  \* target model -> handler instance
  remoteProviderHandlers, \* target model -> handler instance
  instances,      \* every handler instance constructed so far
  last,           \* the last request and what became of it
  nRequests,      \* requests received
  \* one handler instance and the requests it serves
  session,        \* token tracking of a handler: kind, running counts, reports so far
  prune,          \* pruneConversationHistory: its argument and its result
  gemini,         \* GeminiHandler: toolCallMap and the conversions done
  retry,          \* a cloud handler's request: upstream attempts and the answer
  call,           \* one upstream call and its timeout timer
  health,         \* LocalProviderHandler: the clock and the health-probe cache
  pruning,        \* LocalProviderHandler: pruningEnabled and the requests prepared
  adapter,        \* a handler's model adapter and the streams that use it
  middleware      \* GeminiThoughtSignatureMiddleware: its cache and the requests seen

streamVars == <<handler, schemas, pc, reader, out, isClosed, pingTimer, streamClosed,
                cancelled, state, reason, nChunks, nPings, finalizeRuns, tokenUpdates,
                readAfterCancel, hasUsage, xaiCalls, lastMalformed>>

routerVars == <<monitorMode, model, modelMap, registry, env, openRouterHandlers,
                localProviderHandlers, remoteProviderHandlers, instances, last,
                nRequests>>

sideVars == <<session, prune, gemini, retry, call, health, pruning, adapter, middleware>>

vars == <<streamVars, routerVars, sideVars>>

\* The value of a variable whose handler is not part of the behaviour.
Idle == [idle |-> TRUE]

SideIdle ==
  /\ session = Idle
  /\ prune = Idle
  /\ gemini = Idle
  /\ retry = Idle
  /\ call = Idle
  /\ health = Idle
  /\ pruning = Idle
  /\ adapter = Idle
  /\ middleware = Idle

----------------------------------------------------------------------------
\* Events

Ev(t, i, k, r, n) == [type |-> t, index |-> i, kind |-> k, ref |-> r, note |-> n]

MessageStart == Ev("message_start", -1, "", NoRef, "")
PingEv == Ev("ping", -1, "", NoRef, "")
BlockStart(i, k, r) == Ev("content_block_start", i, k, r, "")
BlockDelta(i, k, r, n) == Ev("content_block_delta", i, k, r, n)
BlockStop(i) == Ev("content_block_stop", i, "", NoRef, "")
MessageDelta(stopReason) == Ev("message_delta", -1, stopReason, NoRef, "")
MessageStop == Ev("message_stop", -1, "", NoRef, "")
ErrorEv == Ev("error", -1, "api_error", NoRef, "")
DoneEv == Ev("[DONE]", -1, "", NoRef, "")
RawEv == Ev("raw", -1, "", NoRef, "")

\* send(e, d): enqueue unless isClosed.  c is the pair of the stream state
\* and the output being built within one run.
Send(c, e) == IF isClosed THEN c ELSE [c EXCEPT !.o = Append(@, e)]

createStreamingState ==
  [usage |-> FALSE, finalized |-> FALSE,
   textStarted |-> FALSE, textIdx |-> -1,
   reasoningStarted |-> FALSE, reasoningIdx |-> -1,
   curIdx |-> 0, tools |-> <<>>,
   acc |-> [sig |-> FALSE, calls |-> 0, long |-> FALSE]]

NewTool(key, blockIndex, buffered, q) ==
  [key |-> key, blockIndex |-> blockIndex, started |-> FALSE, closed |-> FALSE,
   hasArgs |-> FALSE, buffered |-> buffered, quality |-> q]

ToolPos(tools, key) ==
  IF \E i \in 1..Len(tools) : tools[i].key = key
  THEN CHOOSE i \in 1..Len(tools) : tools[i].key = key
  ELSE 0

\* validateAndRepairToolCall, as wrapped by validateToolArguments: a call
\* with all required parameters is valid; one with missing parameters is
\* repaired when they can be inferred from the text handed in, and is
\* invalid otherwise.
validateToolArguments(q, textGiven) ==
  [valid |-> (q = "complete") \/ (q = "inferable" /\ textGiven),
   repaired |-> (q = "inferable" /\ textGiven)]

\* extractToolCallsFromText(accumulatedText).length
extractToolCallsFromText(acc) == acc.calls

\* adapter.processTextContent(txt, ""): the text the adapter lets through
\* and the number of tool calls it extracted.  The Grok adapter returns an
\* empty cleanedText while its buffer holds an unfinished element, and for
\* a buffer that is one complete element an empty cleanedText together
\* with the call it parsed.
processTextContent(k) ==
  [cleanedText |-> IF k \in {"filtered", "xai"} THEN "" ELSE "text",
   extractedToolCalls |-> IF k = "xai" THEN 1 ELSE 0]

----------------------------------------------------------------------------
\* createStreamingResponseHandler (openai-compat.ts)

\* Text path: the cleaned text is appended to accumulatedText, withheld
\* while a structured signature is in a buffer shorter than 1000
\* characters, and otherwise emitted in the (possibly new) text block.
CompatText(c, k) ==
  IF processTextContent(k).cleanedText = "" THEN c
  ELSE
    LET acc1 == [sig |-> c.s.acc.sig \/ k \in {"sig", "call"},
                 calls |-> c.s.acc.calls + (IF k = "call" THEN 1 ELSE 0),
                 long |-> c.s.acc.long \/ k = "long"]
        shouldHoldBack == acc1.sig /\ ~acc1.long
        c1 == [c EXCEPT !.s.acc = acc1]
        c2 == IF ~c1.s.textStarted
              THEN Send([c1 EXCEPT !.s.textIdx = c1.s.curIdx,
                                   !.s.curIdx = c1.s.curIdx + 1,
                                   !.s.textStarted = TRUE],
                        BlockStart(c1.s.curIdx, "text", NoRef))
              ELSE c1
    IN IF shouldHoldBack THEN c1
       ELSE Send(c2, BlockDelta(c2.s.textIdx, "text_delta", NoRef, "text"))

\* CompatToolCall with the reset of textStarted left out after the text
\* block is stopped for a new tool entry.
CompatToolCallKeepsTextStarted(c, idx, hasName, hasArgs, q) ==
  LET c1 == IF hasName /\ ToolPos(c.s.tools, idx) = 0
            THEN LET a == IF c.s.textStarted THEN Send(c, BlockStop(c.s.textIdx)) ELSE c
                 IN [a EXCEPT !.s.tools = Append(@, NewTool(idx, a.s.curIdx, schemas, q)),
                              !.s.curIdx = a.s.curIdx + 1]
            ELSE c
      p == ToolPos(c1.s.tools, idx)
      c2 == IF hasName /\ ~c1.s.tools[p].started /\ ~c1.s.tools[p].buffered
            THEN [Send(c1, BlockStart(c1.s.tools[p].blockIndex, "tool_use", idx))
                    EXCEPT !.s.tools[p].started = TRUE]
            ELSE c1
  IN IF hasArgs /\ p # 0
     THEN LET c3 == [c2 EXCEPT !.s.tools[p].hasArgs = TRUE]
          IN IF ~c3.s.tools[p].buffered
             THEN Send(c3, BlockDelta(c3.s.tools[p].blockIndex, "input_json_delta", idx, "args"))
             ELSE c3
     ELSE c2

\* Tool-call path for one entry of delta.tool_calls.
CompatToolCall(c, idx, hasName, hasArgs, q) ==
  LET c1 == IF hasName /\ ToolPos(c.s.tools, idx) = 0
            THEN LET a == IF c.s.textStarted
                          THEN [Send(c, BlockStop(c.s.textIdx)) EXCEPT !.s.textStarted = FALSE]
                          ELSE c
                 IN [a EXCEPT !.s.tools = Append(@, NewTool(idx, a.s.curIdx, schemas, q)),
                              !.s.curIdx = a.s.curIdx + 1]
            ELSE c
      p == ToolPos(c1.s.tools, idx)
      c2 == IF hasName /\ ~c1.s.tools[p].started /\ ~c1.s.tools[p].buffered
            THEN [Send(c1, BlockStart(c1.s.tools[p].blockIndex, "tool_use", idx))
                    EXCEPT !.s.tools[p].started = TRUE]
            ELSE c1
  IN IF hasArgs /\ p # 0
     THEN LET c3 == [c2 EXCEPT !.s.tools[p].hasArgs = TRUE]
          IN IF ~c3.s.tools[p].buffered
             THEN Send(c3, BlockDelta(c3.s.tools[p].blockIndex, "input_json_delta", idx, "args"))
             ELSE c3
     ELSE c2

\* WholeToolBlock with the arguments sent in two fragments, as a streamed
\* call would be.
WholeToolBlockInFragments(c, i, ref, note) ==
  Send(Send(Send(Send(c, BlockStart(i, "tool_use", ref)),
                 BlockDelta(i, "input_json_delta", ref, note)),
            BlockDelta(i, "input_json_delta", ref, note)),
       BlockStop(i))

\* A whole tool_use block: start, the complete arguments as one delta, stop.
WholeToolBlock(c, i, ref, note) ==
  Send(Send(Send(c, BlockStart(i, "tool_use", ref)),
            BlockDelta(i, "input_json_delta", ref, note)),
       BlockStop(i))

\* The synthetic text block that reports the missing parameters.
ErrorTextBlock(c, i, ref) ==
  Send(Send(Send(c, BlockStart(i, "text", NoRef)),
            BlockDelta(i, "text_delta", ref, "missing required parameters")),
       BlockStop(i))

\* finish_reason "tool_calls": the body of the loop for the i-th tool entry.
CompatFinishOne(c, i) ==
  LET t == c.s.tools[i]
      v == validateToolArguments(t.quality, TRUE)
      justClose == IF t.started /\ ~t.closed
                   THEN [Send(c, BlockStop(t.blockIndex)) EXCEPT !.s.tools[i].closed = TRUE]
                   ELSE c
  IN IF t.closed THEN c
     ELSE IF ~schemas THEN justClose
     ELSE IF v.repaired /\ t.buffered /\ ~t.started
       THEN [WholeToolBlock(c, t.blockIndex, t.key, "repaired")
               EXCEPT !.s.tools[i].started = TRUE, !.s.tools[i].closed = TRUE]
     ELSE IF v.repaired /\ t.started
       THEN [WholeToolBlock([Send(c, BlockStop(t.blockIndex)) EXCEPT !.s.curIdx = c.s.curIdx + 1],
                            c.s.curIdx, t.key, "repaired")
               EXCEPT !.s.tools[i].closed = TRUE]
     ELSE IF ~v.valid
       THEN LET errorIdx == IF t.buffered THEN t.blockIndex ELSE c.s.curIdx
                c1 == IF t.buffered THEN c ELSE [c EXCEPT !.s.curIdx = c.s.curIdx + 1]
                c2 == ErrorTextBlock(c1, errorIdx, t.key)
                c3 == IF t.started /\ ~t.buffered THEN Send(c2, BlockStop(t.blockIndex)) ELSE c2
            IN [c3 EXCEPT !.s.tools[i].closed = TRUE]
     ELSE IF t.buffered /\ ~t.started
       THEN [WholeToolBlock(c, t.blockIndex, t.key, "args")
               EXCEPT !.s.tools[i].started = TRUE, !.s.tools[i].closed = TRUE]
     ELSE justClose

RECURSIVE CompatFinishTools(_, _)
CompatFinishTools(c, i) ==
  IF i > Len(c.s.tools) THEN c ELSE CompatFinishTools(CompatFinishOne(c, i), i + 1)

\* finalize: one freshly indexed tool_use block per text-extracted call.
RECURSIVE EmitExtracted(_, _)
EmitExtracted(c, n) ==
  IF n = 0 THEN c
  ELSE EmitExtracted(WholeToolBlock([c EXCEPT !.s.curIdx = c.s.curIdx + 1],
                                    c.s.curIdx, Extracted, "args"),
                     n - 1)

\* finalize: stop the tool blocks that were started and not closed.
RECURSIVE StopOpenTools(_, _)
StopOpenTools(c, i) ==
  IF i > Len(c.s.tools) THEN c
  ELSE LET t == c.s.tools[i]
       IN StopOpenTools(IF t.started /\ ~t.closed
                        THEN [Send(c, BlockStop(t.blockIndex)) EXCEPT !.s.tools[i].closed = TRUE]
                        ELSE c,
                        i + 1)

\* finalize up to its await of middlewareManager.afterStreamComplete.
CompatFinalizeHead(c) ==
  LET n == extractToolCallsFromText(c.s.acc)
      c0 == [c EXCEPT !.s.finalized = TRUE]
      c1 == IF n > 0
            THEN EmitExtracted(IF c0.s.textStarted
                               THEN [Send(c0, BlockStop(c0.s.textIdx)) EXCEPT !.s.textStarted = FALSE]
                               ELSE c0,
                               n)
            ELSE c0
      c2 == IF c1.s.reasoningStarted THEN Send(c1, BlockStop(c1.s.reasoningIdx)) ELSE c1
      c3 == IF c2.s.textStarted THEN Send(c2, BlockStop(c2.s.textIdx)) ELSE c2
  IN StopOpenTools(c3, 1)

\* stop_reason of the message_delta event
CompatStopReason(s) == IF extractToolCallsFromText(s.acc) > 0 THEN "tool_use" ELSE "end_turn"

----------------------------------------------------------------------------
\* OpenRouterHandler.handleStreamingResponse (openrouter-handler.ts)

\* reasoning_details entry of type reasoning.text / reasoning.summary with content
OpenRouterReasoning(c) ==
  LET c1 == IF ~c.s.reasoningStarted
            THEN Send([c EXCEPT !.s.reasoningIdx = c.s.curIdx,
                                !.s.curIdx = c.s.curIdx + 1,
                                !.s.reasoningStarted = TRUE],
                      BlockStart(c.s.curIdx, "thinking", NoRef))
            ELSE c
  IN Send(c1, BlockDelta(c1.s.reasoningIdx, "thinking_delta", NoRef, "thinking"))

\* delta.content: the thinking block is closed, the text block opened, and
\* the cleaned text emitted when the adapter left any.
OpenRouterText(c, k) ==
  LET c1 == IF c.s.reasoningStarted
            THEN [Send(c, BlockStop(c.s.reasoningIdx)) EXCEPT !.s.reasoningStarted = FALSE]
            ELSE c
      c2 == IF ~c1.s.textStarted
            THEN Send([c1 EXCEPT !.s.textIdx = c1.s.curIdx,
                                 !.s.curIdx = c1.s.curIdx + 1,
                                 !.s.textStarted = TRUE],
                      BlockStart(c1.s.curIdx, "text", NoRef))
            ELSE c1
  IN IF processTextContent(k).cleanedText = "" THEN c2
     ELSE Send(c2, BlockDelta(c2.s.textIdx, "text_delta", NoRef, "text"))

\* One entry of delta.tool_calls.
OpenRouterToolCall(c, idx, hasName, hasArgs, q) ==
  LET c1 == IF hasName /\ ToolPos(c.s.tools, idx) = 0
            THEN LET a == IF c.s.reasoningStarted
                          THEN [Send(c, BlockStop(c.s.reasoningIdx)) EXCEPT !.s.reasoningStarted = FALSE]
                          ELSE c
                     b == IF a.s.textStarted
                          THEN [Send(a, BlockStop(a.s.textIdx)) EXCEPT !.s.textStarted = FALSE]
                          ELSE a
                 IN [b EXCEPT !.s.tools = Append(@, NewTool(idx, b.s.curIdx, FALSE, q)),
                              !.s.curIdx = b.s.curIdx + 1]
            ELSE c
      p == ToolPos(c1.s.tools, idx)
      c2 == IF hasName /\ ~c1.s.tools[p].started
            THEN [Send(c1, BlockStart(c1.s.tools[p].blockIndex, "tool_use", idx))
                    EXCEPT !.s.tools[p].started = TRUE]
            ELSE c1
  IN IF hasArgs /\ p # 0
     THEN Send([c2 EXCEPT !.s.tools[p].hasArgs = TRUE],
               BlockDelta(c2.s.tools[p].blockIndex, "input_json_delta", idx, "args"))
     ELSE c2

\* finish_reason "tool_calls": the body of the loop for the i-th tool entry.
OpenRouterFinishOne(c, i) ==
  LET t == c.s.tools[i]
      v == validateToolArguments(t.quality, FALSE)
  IN IF ~(t.started /\ ~t.closed) THEN c
     ELSE IF schemas /\ ~v.valid
       THEN [ErrorTextBlock([c EXCEPT !.s.curIdx = c.s.curIdx + 1], c.s.curIdx, t.key)
               EXCEPT !.s.tools[i].closed = TRUE]
     ELSE [Send(c, BlockStop(t.blockIndex)) EXCEPT !.s.tools[i].closed = TRUE]

RECURSIVE OpenRouterFinishTools(_, _)
OpenRouterFinishTools(c, i) ==
  IF i > Len(c.s.tools) THEN c ELSE OpenRouterFinishTools(OpenRouterFinishOne(c, i), i + 1)

\* finalize up to its await of middlewareManager.afterStreamComplete.
OpenRouterFinalizeHead(c) ==
  LET c0 == [c EXCEPT !.s.finalized = TRUE]
      c1 == IF c0.s.reasoningStarted
            THEN [Send(c0, BlockStop(c0.s.reasoningIdx)) EXCEPT !.s.reasoningStarted = FALSE]
            ELSE c0
      c2 == IF c1.s.textStarted
            THEN [Send(c1, BlockStop(c1.s.textIdx)) EXCEPT !.s.textStarted = FALSE]
            ELSE c1
  IN StopOpenTools(c2, 1)

----------------------------------------------------------------------------
\* GeminiHandler.handleStreamingResponse

\* part.thought / part.thoughtText
GeminiThought(c) ==
  LET c1 == IF ~c.s.reasoningStarted
            THEN Send([c EXCEPT !.s.reasoningIdx = c.s.curIdx,
                                !.s.curIdx = c.s.curIdx + 1,
                                !.s.reasoningStarted = TRUE],
                      BlockStart(c.s.curIdx, "thinking", NoRef))
            ELSE c
  IN Send(c1, BlockDelta(c1.s.reasoningIdx, "thinking_delta", NoRef, "thinking"))

\* part.text
GeminiText(c, k) ==
  LET c1 == IF c.s.reasoningStarted
            THEN [Send(c, BlockStop(c.s.reasoningIdx)) EXCEPT !.s.reasoningStarted = FALSE]
            ELSE c
      c2 == IF ~c1.s.textStarted
            THEN Send([c1 EXCEPT !.s.textIdx = c1.s.curIdx,
                                 !.s.curIdx = c1.s.curIdx + 1,
                                 !.s.textStarted = TRUE],
                      BlockStart(c1.s.curIdx, "text", NoRef))
            ELSE c1
  IN IF k = "filtered" THEN c1
     ELSE Send(c2, BlockDelta(c2.s.textIdx, "text_delta", NoRef, "text"))

\* part.functionCall
GeminiFunctionCall(c) ==
  LET c1 == IF c.s.reasoningStarted
            THEN [Send(c, BlockStop(c.s.reasoningIdx)) EXCEPT !.s.reasoningStarted = FALSE]
            ELSE c
      c2 == IF c1.s.textStarted
            THEN [Send(c1, BlockStop(c1.s.textIdx)) EXCEPT !.s.textStarted = FALSE]
            ELSE c1
      toolIdx == Len(c2.s.tools)
      t == [NewTool(toolIdx, c2.s.curIdx, FALSE, "complete")
              EXCEPT !.started = TRUE, !.closed = TRUE, !.hasArgs = TRUE]
  IN WholeToolBlock([c2 EXCEPT !.s.tools = Append(@, t), !.s.curIdx = c2.s.curIdx + 1],
                    c2.s.curIdx, toolIdx, "args")

\* finalize up to its await of middlewareManager.afterStreamComplete.
GeminiFinalizeHead(c) ==
  LET c0 == [c EXCEPT !.s.finalized = TRUE]
      c1 == IF c0.s.reasoningStarted THEN Send(c0, BlockStop(c0.s.reasoningIdx)) ELSE c0
      c2 == IF c1.s.textStarted THEN Send(c1, BlockStop(c1.s.textIdx)) ELSE c1
  IN StopOpenTools(c2, 1)

GeminiStopReason(s) == IF Len(s.tools) > 0 THEN "tool_use" ELSE "end_turn"

----------------------------------------------------------------------------
\* Model routing: createProxyServer (proxy-server.ts) and the provider
\* registries

MaxRequests == 2

\* A model id is written head, separator, rest: "oai/gpt-4o" has head
\* "oai", separator "/" and rest "gpt-4o"; an id without "/" or ":" is all
\* head.  No head contains a separator, so that a model id starts with the
\* prefix "oai/" exactly when its head is "oai" and its separator is "/".
M(h, sp, r) == [head |-> h, sep |-> sp, rest |-> r]

\* No model: undefined or the empty string.
NoModel == M("", "", "")

\* The model ids requests are made with.
ModelIds ==
  { M("claude-3-opus-20240229", "", ""),
    M("Claude-Sonnet-4", "", ""),
    M("sonnet-or-opus", "", ""),
    M("anthropic", "/", "claude-3-haiku"),
    M("g", "/", "gemini-2.5-flash"),
    M("oai", "/", "gpt-4o"),
    M("openai", "/", "gpt-5"),
    M("or", "/", "google/gemini-2.5-flash"),
    M("mmax", "/", "m2"),
    M("kimi", "/", "k2"),
    M("ollama", "/", "llama3"),
    M("http:", "/", "/localhost:11434/llama3") }

\* The model ids token counts are asked for.
CountedModelIds ==
  { M("claude-3-opus-20240229", "", ""),
    M("g", "/", "gemini-2.5-flash") }

\* The models a server is started with: --model, and the entries of the
\* profile map.
OverrideModels == {NoModel, M("oai", "/", "gpt-4o"), M("x-ai", "/", "grok-4")}

\* modelMap undefined
NoMap == [defined |-> FALSE, opus |-> NoModel, sonnet |-> NoModel, haiku |-> NoModel]

\* A profile map with every entry, and one with the sonnet entry only.
ModelMaps ==
  { NoMap,
    [defined |-> TRUE, opus |-> M("g", "/", "gemini-2.5-flash"),
     sonnet |-> M("oai", "/", "gpt-4o"), haiku |-> M("ollama", "/", "llama3")],
    [defined |-> TRUE, opus |-> NoModel,
     sonnet |-> M("oai", "/", "gpt-4o"), haiku |-> NoModel] }

EnvVars == {"GEMINI_API_KEY", "OPENAI_API_KEY", "MINIMAX_API_KEY", "MOONSHOT_API_KEY"}

\* String.prototype.toLowerCase on the strings model ids are made of.
toLowerCase(str) ==
  CASE str = "Claude-Sonnet-4" -> "claude-sonnet-4"
    [] OTHER -> str

\* The keywords a string contains (String.prototype.includes); the match
\* is case-sensitive.
Keywords(str) ==
  CASE str = "claude-3-opus-20240229" -> {"opus"}
    [] str = "claude-sonnet-4" -> {"sonnet"}
    [] str = "sonnet-or-opus" -> {"sonnet", "opus"}
    [] str = "claude-3-haiku" -> {"haiku"}
    [] OTHER -> {}

\* requestedModel.toLowerCase().includes(kw), without the lowering
includesNoLowering(m, kw) == kw \in Keywords(m.head) \cup Keywords(m.rest)

\* requestedModel.toLowerCase().includes(kw)
includes(m, kw) == kw \in Keywords(toLowerCase(m.head)) \cup Keywords(toLowerCase(m.rest))

\* modelId.startsWith(prefix), the prefix written head, separator
startsWith(m, prefix) == m.head = prefix[1] /\ m.sep = prefix[2]

\* target.includes("/")
includesSlash(m) == m.sep = "/"

\* getRemoteProviders, in the order of the array, in the two versions of
\* the registry: the one without and the one with "openai/" among the
\* prefixes of the direct OpenAI provider.
getRemoteProviders(variant) ==
  IF variant = "oai"
  THEN << [name |-> "gemini", apiKeyEnvVar |-> "GEMINI_API_KEY",
           prefixes |-> {<<"g", "/">>, <<"gemini", "/">>}],
          [name |-> "openai", apiKeyEnvVar |-> "OPENAI_API_KEY",
           prefixes |-> {<<"oai", "/">>}],
          [name |-> "openrouter", apiKeyEnvVar |-> "OPENROUTER_API_KEY",
           prefixes |-> {<<"or", "/">>}],
          [name |-> "minimax", apiKeyEnvVar |-> "MINIMAX_API_KEY",
           prefixes |-> {<<"mmax", "/">>, <<"mm", "/">>}],
          [name |-> "kimi", apiKeyEnvVar |-> "MOONSHOT_API_KEY",
           prefixes |-> {<<"kimi", "/">>, <<"moonshot", "/">>}],
          [name |-> "glm", apiKeyEnvVar |-> "ZHIPU_API_KEY",
           prefixes |-> {<<"glm", "/">>, <<"zhipu", "/">>}] >>
  ELSE << [name |-> "gemini", apiKeyEnvVar |-> "GEMINI_API_KEY",
           prefixes |-> {<<"g", "/">>, <<"gemini", "/">>}],
          [name |-> "openai", apiKeyEnvVar |-> "OPENAI_API_KEY",
           prefixes |-> {<<"oai", "/">>, <<"openai", "/">>}],
          [name |-> "openrouter", apiKeyEnvVar |-> "OPENROUTER_API_KEY",
           prefixes |-> {<<"or", "/">>}] >>

RegistryVariants == {"oai", "oai+openai"}

\* No provider: the null of the resolve functions.
NoProvider == [name |-> "", apiKeyEnvVar |-> "", prefixes |-> {}]

\* The first provider of the array one of whose prefixes the id starts with.
FirstMatch(providers, m) ==
  LET hits == {i \in 1..Len(providers) :
                 \E prefix \in providers[i].prefixes : startsWith(m, prefix)}
  IN IF hits = {} THEN NoProvider
     ELSE providers[CHOOSE i \in hits : \A j \in hits : i <= j]

resolveRemoteProvider(m) == FirstMatch(getRemoteProviders(registry), m)

\* validateRemoteProviderApiKey finding every key set.
validateRemoteProviderApiKeyNoCheck(provider) == ""

\* validateRemoteProviderApiKey: the variable the message names, "" when
\* the key is set.
validateRemoteProviderApiKey(provider) ==
  IF provider.apiKeyEnvVar \in env THEN "" ELSE provider.apiKeyEnvVar

\* getProviders of the local registry.
getProviders ==
  << [name |-> "ollama", apiKeyEnvVar |-> "",
      prefixes |-> {<<"ollama", "/">>, <<"ollama", ":">>}],
     [name |-> "lmstudio", apiKeyEnvVar |-> "",
      prefixes |-> {<<"lmstudio", "/">>, <<"lmstudio", ":">>,
                    <<"mlstudio", "/">>, <<"mlstudio", ":">>}],
     [name |-> "vllm", apiKeyEnvVar |-> "",
      prefixes |-> {<<"vllm", "/">>, <<"vllm", ":">>}],
     [name |-> "mlx", apiKeyEnvVar |-> "",
      prefixes |-> {<<"mlx", "/">>, <<"mlx", ":">>}] >>

resolveProvider(m) == FirstMatch(getProviders, m)

\* parseUrlModel(m) is not null: the id starts with http:// or https://
\* and its URL has a path segment.
parseUrlModel(m) ==
  /\ m.head \in {"http:", "https:"}
  /\ m.sep = "/"
  /\ m.rest = "/localhost:11434/llama3"

\* A handler instance: its class, the target model it was made for and the
\* order of its construction.  The native handler is made at start-up.
Instance(k, t, n) == [kind |-> k, target |-> t, id |-> n]

nativeHandler == Instance("native", NoModel, 0)

NoInstance == Instance("", NoModel, -1)

\* Step 2 of getHandlerForRequest: the target model.
Target(requestedModel) ==
  IF model # NoModel THEN model
  ELSE IF modelMap.defined
  THEN IF includes(requestedModel, "opus") /\ modelMap.opus # NoModel
       THEN modelMap.opus
       ELSE IF includes(requestedModel, "sonnet") /\ modelMap.sonnet # NoModel
       THEN modelMap.sonnet
       ELSE IF includes(requestedModel, "haiku") /\ modelMap.haiku # NoModel
       THEN modelMap.haiku
       ELSE requestedModel
  ELSE requestedModel

\* new Map()
NoHandlers == [t \in {} |-> NoInstance]

\* What a get-or-create helper yields: the handler (NoInstance for null),
\* the variable named by a thrown error ("" when nothing is thrown), and
\* the construction it made, if any.
Got(h, made) == [handler |-> h, throws |-> "", made |-> made]
Null == Got(NoInstance, FALSE)
Throws(envVar) == [handler |-> NoInstance, throws |-> envVar, made |-> FALSE]

\* getRemoteProviderHandler(targetModel)
getRemoteProviderHandler(targetModel) ==
  IF targetModel \in DOMAIN remoteProviderHandlers
  THEN Got(remoteProviderHandlers[targetModel], FALSE)
  ELSE LET provider == resolveRemoteProvider(targetModel)
       IN IF provider = NoProvider THEN Null
          ELSE IF provider.name = "openrouter" THEN Null
          ELSE IF validateRemoteProviderApiKey(provider) # ""
          THEN Throws(validateRemoteProviderApiKey(provider))
          ELSE IF provider.name \in {"gemini", "openai"}
          THEN Got(Instance(provider.name, targetModel, Cardinality(instances)), TRUE)
          ELSE Null

\* getLocalProviderHandler(targetModel)
getLocalProviderHandler(targetModel) ==
  IF targetModel \in DOMAIN localProviderHandlers
  THEN Got(localProviderHandlers[targetModel], FALSE)
  ELSE IF resolveProvider(targetModel) # NoProvider \/ parseUrlModel(targetModel)
  THEN Got(Instance("local", targetModel, Cardinality(instances)), TRUE)
  ELSE Null

\* getOpenRouterHandler without the test of the map.
getOpenRouterHandlerAlwaysNew(targetModel) ==
  Got(Instance("openrouter", targetModel, Cardinality(instances)), TRUE)

\* getOpenRouterHandler(targetModel)
getOpenRouterHandler(targetModel) ==
  IF targetModel \in DOMAIN openRouterHandlers
  THEN Got(openRouterHandlers[targetModel], FALSE)
  ELSE Got(Instance("openrouter", targetModel, Cardinality(instances)), TRUE)

\* getHandlerForRequest with the monitor-mode test left out.
getHandlerForRequestNoMonitor(requestedModel) ==
  LET target == Target(requestedModel)
      remote == getRemoteProviderHandler(target)
      local == getLocalProviderHandler(target)
  IN IF remote # Null THEN remote
     ELSE IF local # Null THEN local
     ELSE IF ~includesSlash(target) THEN Got(nativeHandler, FALSE)
     ELSE getOpenRouterHandler(target)

\* getHandlerForRequest(requestedModel)
getHandlerForRequest(requestedModel) ==
  IF monitorMode THEN Got(nativeHandler, FALSE)
  ELSE LET target == Target(requestedModel)
           remote == getRemoteProviderHandler(target)
           local == getLocalProviderHandler(target)
       IN IF remote # Null THEN remote
          ELSE IF local # Null THEN local
          ELSE IF ~includesSlash(target) THEN Got(nativeHandler, FALSE)
          ELSE getOpenRouterHandler(target)

\* The map a newly made handler is put in.
Cached(map, kinds, got) ==
  IF got.made /\ got.handler.kind \in kinds
  THEN [t \in DOMAIN map \cup {got.handler.target} |->
          IF t = got.handler.target THEN got.handler ELSE map[t]]
  ELSE map

\* No request yet.
NoRequest ==
  [endpoint |-> "", requested |-> NoModel, target |-> NoModel,
   handler |-> NoInstance, made |-> FALSE, status |-> 0, message |-> "",
   handled |-> FALSE]

\* One request whose body names the model m: getHandlerForRequest runs to
\* its end without an await; the handler it returns is used, and an error
\* it throws is caught and answered with status 500.
Serve(endpoint, m) ==
  LET got == getHandlerForRequest(m)
  IN /\ nRequests < MaxRequests
     /\ nRequests' = nRequests + 1
     /\ openRouterHandlers' = Cached(openRouterHandlers, {"openrouter"}, got)
     /\ localProviderHandlers' = Cached(localProviderHandlers, {"local"}, got)
     /\ remoteProviderHandlers' = Cached(remoteProviderHandlers, {"gemini", "openai"}, got)
     /\ instances' = (IF got.made THEN instances \cup {got.handler} ELSE instances)
     /\ last' = [endpoint |-> endpoint,
                 requested |-> m,
                 target |-> (IF monitorMode THEN NoModel ELSE Target(m)),
                 handler |-> got.handler,
                 made |-> got.made,
                 status |-> (IF got.throws # "" THEN 500 ELSE 200),
                 message |-> got.throws,
                 handled |-> (got.throws = "" /\ endpoint = "/v1/messages")]
     /\ UNCHANGED <<monitorMode, model, modelMap, registry, env>>
     /\ UNCHANGED streamVars
     /\ UNCHANGED sideVars

\* POST /v1/messages
Messages == \E m \in ModelIds : Serve("/v1/messages", m)

\* POST /v1/messages/count_tokens; a body without a model counts for
\* claude-3-opus-20240229.
CountTokens == \E m \in CountedModelIds : Serve("/v1/messages/count_tokens", m)

\* The router variables of a server that has served nothing, started
\* without monitor mode, selected model and profile map.
RouterIdle ==
  /\ monitorMode = FALSE
  /\ model = NoModel
  /\ modelMap = NoMap
  /\ registry = "oai"
  /\ env = {}
  /\ openRouterHandlers = NoHandlers
  /\ localProviderHandlers = NoHandlers
  /\ remoteProviderHandlers = NoHandlers
  /\ instances = {nativeHandler}
  /\ last = NoRequest
  /\ nRequests = 0

\* createProxyServer: the arguments and the environment the server is
\* started with; no stream is open.
RouterInit ==
  /\ monitorMode \in BOOLEAN
  /\ model \in OverrideModels
  /\ modelMap \in ModelMaps
  /\ registry \in RegistryVariants
  /\ env \in SUBSET EnvVars
  /\ openRouterHandlers = NoHandlers
  /\ localProviderHandlers = NoHandlers
  /\ remoteProviderHandlers = NoHandlers
  /\ instances = {nativeHandler}
  /\ last = NoRequest
  /\ nRequests = 0
  /\ handler = "compat"
  /\ schemas = FALSE
  /\ pc = "end"
  /\ reader = "ended"
  /\ out = <<>>
  /\ isClosed = TRUE
  /\ pingTimer = FALSE
  /\ streamClosed = TRUE
  /\ cancelled = FALSE
  /\ state = createStreamingState
  /\ reason = ""
  /\ nChunks = 0
  /\ nPings = 0
  /\ finalizeRuns = 0
  /\ tokenUpdates = 0
  /\ readAfterCancel = FALSE
  /\ hasUsage = FALSE
  /\ xaiCalls = 0
  /\ lastMalformed = 0
  /\ SideIdle

RouterNext ==
  \/ Messages
  \/ CountTokens

RouterSpec == RouterInit /\ [][RouterNext]_vars

----------------------------------------------------------------------------
\* The stream: start(), the ping timer and cancel()

Cur == [s |-> state, o |-> out]

Commit(c) == state' = c.s /\ out' = c.o

\* State when start() first awaits reader.read(): message_start and the
\* first ping are enqueued and the ping timer is armed.  The pass-through
\* handler enqueues nothing of its own and has no timer.
Init ==
  /\ handler \in Handlers
  /\ schemas \in (IF handler \in {"compat", "openrouter"} THEN BOOLEAN ELSE {FALSE})
  /\ pc = "read"
  /\ reader = "reading"
  /\ out = (IF handler = "anthropic" THEN <<>> ELSE <<MessageStart, PingEv>>)
  /\ isClosed = FALSE
  /\ pingTimer = (handler # "anthropic")
  /\ streamClosed = FALSE
  /\ cancelled = FALSE
  /\ state = createStreamingState
  /\ reason = ""
  /\ nChunks = 0
  /\ nPings = 0
  /\ finalizeRuns = 0
  /\ tokenUpdates = 0
  /\ readAfterCancel = FALSE
  /\ hasUsage = FALSE
  /\ xaiCalls = 0
  /\ lastMalformed = 0
  /\ RouterIdle
  /\ SideIdle

\* reader.read() delivered one more data line, which the loop takes up.
LineRead ==
  /\ pc = "read"
  /\ nChunks < MaxChunks
  /\ nChunks' = nChunks + 1
  /\ readAfterCancel' = (readAfterCancel \/ cancelled)
  /\ UNCHANGED <<handler, schemas, pc, reader, isClosed, pingTimer, streamClosed,
                 cancelled, reason, nPings, finalizeRuns, tokenUpdates, hasUsage>>
  /\ UNCHANGED routerVars
  /\ UNCHANGED sideVars

\* The data line parses as JSON and the chunk is processed.
ChunkRead ==
  /\ LineRead
  /\ UNCHANGED lastMalformed

Qualities == IF schemas THEN ArgQuality ELSE {"complete"}

CompatTextChunk ==
  /\ handler = "compat"
  /\ ChunkRead
  /\ \E k \in TextKinds :
       /\ Commit(CompatText(Cur, k))
       /\ xaiCalls' = xaiCalls + processTextContent(k).extractedToolCalls

CompatToolChunk ==
  /\ UNCHANGED xaiCalls
  /\ handler = "compat"
  /\ ChunkRead
  /\ \E idx \in ToolIdx, hasName \in BOOLEAN, hasArgs \in BOOLEAN, q \in Qualities :
       /\ hasName \/ hasArgs
       /\ Commit(CompatToolCall(Cur, idx, hasName, hasArgs, q))

CompatFinishChunk ==
  /\ UNCHANGED xaiCalls
  /\ handler = "compat"
  /\ ChunkRead
  /\ Commit(CompatFinishTools(Cur, 1))

OpenRouterReasoningChunk ==
  /\ UNCHANGED xaiCalls
  /\ handler = "openrouter"
  /\ ChunkRead
  /\ Commit(OpenRouterReasoning(Cur))

OpenRouterTextChunk ==
  /\ handler = "openrouter"
  /\ ChunkRead
  /\ \E k \in {"plain", "filtered", "xai"} :
       /\ Commit(OpenRouterText(Cur, k))
       /\ xaiCalls' = xaiCalls + processTextContent(k).extractedToolCalls

OpenRouterToolChunk ==
  /\ UNCHANGED xaiCalls
  /\ handler = "openrouter"
  /\ ChunkRead
  /\ \E idx \in ToolIdx, hasName \in BOOLEAN, hasArgs \in BOOLEAN, q \in Qualities :
       /\ hasName \/ hasArgs
       /\ Commit(OpenRouterToolCall(Cur, idx, hasName, hasArgs, q))

OpenRouterFinishChunk ==
  /\ UNCHANGED xaiCalls
  /\ handler = "openrouter"
  /\ ChunkRead
  /\ Commit(OpenRouterFinishTools(Cur, 1))

GeminiThoughtChunk ==
  /\ UNCHANGED xaiCalls
  /\ handler = "gemini"
  /\ ChunkRead
  /\ Commit(GeminiThought(Cur))

GeminiTextChunk ==
  /\ UNCHANGED xaiCalls
  /\ handler = "gemini"
  /\ ChunkRead
  /\ \E k \in {"plain", "filtered"} : Commit(GeminiText(Cur, k))

GeminiFunctionCallChunk ==
  /\ UNCHANGED xaiCalls
  /\ handler = "gemini"
  /\ ChunkRead
  /\ Commit(GeminiFunctionCall(Cur))

\* chunk.usage / chunk.usageMetadata
UsageChunk ==
  /\ UNCHANGED xaiCalls
  /\ handler \in {"compat", "openrouter", "gemini"}
  /\ ChunkRead
  /\ ~state.usage
  /\ state' = [state EXCEPT !.usage = TRUE]
  /\ UNCHANGED out

\* A chunk that has no field the handler acts on.
SkippedChunk ==
  /\ UNCHANGED xaiCalls
  /\ handler \in {"compat", "openrouter", "gemini"}
  /\ ChunkRead
  /\ UNCHANGED <<state, out>>

\* OnParseError with an error event sent to the client.
OnParseErrorReports(c) == Send(c, ErrorEv)

\* The catch around the processing of one data line: empty in the compat
\* and aggregator handlers, a log call in the Gemini handler.
OnParseError(c) == c

\* A data line on which JSON.parse throws: the first statement of the try
\* block fails, the catch runs and the loop goes on to the next line.
MalformedChunk ==
  /\ handler \in {"compat", "openrouter", "gemini"}
  /\ LineRead
  /\ lastMalformed' = nChunks + 1
  /\ UNCHANGED xaiCalls
  /\ Commit(OnParseError(Cur))

FinalizeHead(c) ==
  CASE handler = "compat" -> CompatFinalizeHead(c)
    [] handler = "openrouter" -> OpenRouterFinalizeHead(c)
    [] OTHER -> GeminiFinalizeHead(c)

StopReason ==
  CASE handler = "compat" -> CompatStopReason(state)
    [] handler = "openrouter" -> "end_turn"
    [] OTHER -> GeminiStopReason(state)

\* Finalize without the test of state.finalized.
FinalizeUnguarded(r) ==
  /\ Commit(FinalizeHead(Cur))
  /\ reason' = r
  /\ finalizeRuns' = finalizeRuns + 1
  /\ tokenUpdates' = tokenUpdates + (IF handler = "openrouter" /\ state.usage THEN 1 ELSE 0)
  /\ pc' = "finalize"

\* finalize(r), from its guard to the await of afterStreamComplete.  The
\* aggregator handler writes the token file before the await.
Finalize(r) ==
  IF state.finalized
  THEN /\ pc' = "end"
       /\ UNCHANGED <<state, out, reason, finalizeRuns, tokenUpdates>>
  ELSE /\ Commit(FinalizeHead(Cur))
       /\ reason' = r
       /\ finalizeRuns' = finalizeRuns + 1
       /\ tokenUpdates' = tokenUpdates + (IF handler = "openrouter" /\ state.usage THEN 1 ELSE 0)
       /\ pc' = "finalize"

\* The data line "[DONE]": finalize("done"), then return.
UpstreamDone ==
  /\ handler \in {"compat", "openrouter", "gemini"}
  /\ pc = "read"
  /\ Finalize("done")
  /\ reader' = "abandoned"
  /\ readAfterCancel' = (readAfterCancel \/ cancelled)
  /\ UNCHANGED <<handler, schemas, isClosed, pingTimer, streamClosed, cancelled,
                 nChunks, nPings, hasUsage, xaiCalls, lastMalformed>>
  /\ UNCHANGED routerVars
  /\ UNCHANGED sideVars

\* candidate.finishReason STOP or MAX_TOKENS: finalize("done"), then return.
GeminiStopChunk ==
  /\ handler = "gemini"
  /\ pc = "read"
  /\ Finalize("done")
  /\ reader' = "abandoned"
  /\ readAfterCancel' = (readAfterCancel \/ cancelled)
  /\ UNCHANGED <<handler, schemas, isClosed, pingTimer, streamClosed, cancelled,
                 nChunks, nPings, hasUsage, xaiCalls, lastMalformed>>
  /\ UNCHANGED routerVars
  /\ UNCHANGED sideVars

\* reader.read() returns done: the loop breaks, finalize("unexpected").
UpstreamEnd ==
  /\ handler \in {"compat", "openrouter", "gemini"}
  /\ pc = "read"
  /\ Finalize("unexpected")
  /\ reader' = "ended"
  /\ UNCHANGED <<handler, schemas, isClosed, pingTimer, streamClosed, cancelled,
                 nChunks, nPings, readAfterCancel, hasUsage, xaiCalls, lastMalformed>>
  /\ UNCHANGED routerVars
  /\ UNCHANGED sideVars

\* reader.read() rejects: the catch runs finalize("error", String(e)).
ReadError ==
  /\ handler \in {"compat", "openrouter", "gemini"}
  /\ pc = "read"
  /\ Finalize("error")
  /\ reader' = "failed"
  /\ UNCHANGED <<handler, schemas, isClosed, pingTimer, streamClosed, cancelled,
                 nChunks, nPings, readAfterCancel, hasUsage, xaiCalls, lastMalformed>>
  /\ UNCHANGED routerVars
  /\ UNCHANGED sideVars

\* finalize after its await: the error event or message_delta and
\* message_stop, the token update, and, unless isClosed, the sentinel,
\* controller.close() and clearInterval.
FinalizeTail ==
  /\ pc = "finalize"
  /\ LET c == IF reason = "error"
              THEN Send(Cur, ErrorEv)
              ELSE Send(Send(Cur, MessageDelta(StopReason)), MessageStop)
     IN /\ state' = c.s
        /\ out' = (IF isClosed THEN c.o ELSE Append(c.o, DoneEv))
  /\ tokenUpdates' = tokenUpdates +
       (IF handler = "compat" \/ (handler = "gemini" /\ state.usage) THEN 1 ELSE 0)
  /\ streamClosed' = (streamClosed \/ ~isClosed)
  /\ isClosed' = TRUE
  /\ pingTimer' = (pingTimer /\ isClosed)
  /\ pc' = "end"
  /\ UNCHANGED <<handler, schemas, reader, cancelled, reason, nChunks, nPings,
                 finalizeRuns, readAfterCancel, hasUsage, xaiCalls, lastMalformed>>
  /\ UNCHANGED routerVars
  /\ UNCHANGED sideVars

\* The awaited afterStreamComplete rejects inside finalize: the rejection
\* leaves finalize, the catch of start() calls finalize("error", String(e)),
\* which finds state.finalized set and returns, and start() returns.  The
\* statements of the first invocation after the await are never reached.
AfterStreamCompleteRejects ==
  /\ handler \in {"compat", "openrouter", "gemini"}
  /\ pc = "finalize"
  /\ Finalize("error")
  /\ UNCHANGED <<handler, schemas, reader, isClosed, pingTimer, streamClosed, cancelled,
                 nChunks, nPings, readAfterCancel, hasUsage, xaiCalls, lastMalformed>>
  /\ UNCHANGED routerVars
  /\ UNCHANGED sideVars

\* One tick of the interval timer at which more than a second passed since
\* lastActivity: a ping is sent unless isClosed.
PingTick ==
  /\ pingTimer
  /\ ~isClosed
  /\ nPings < MaxPings
  /\ out' = Append(out, PingEv)
  /\ nPings' = nPings + 1
  /\ UNCHANGED <<handler, schemas, pc, reader, isClosed, pingTimer, streamClosed,
                 cancelled, state, reason, nChunks, finalizeRuns, tokenUpdates,
                 readAfterCancel, hasUsage, xaiCalls, lastMalformed>>
  /\ UNCHANGED routerVars
  /\ UNCHANGED sideVars

\* The client disconnects while the response stream is open.  cancel() of
\* the three converting handlers sets isClosed and clears the timer; the
\* pass-through handler's stream has no cancel callback.
Cancel ==
  /\ ~cancelled
  /\ ~streamClosed
  /\ pc \in {"read", "finalize"}
  /\ cancelled' = TRUE
  /\ isClosed' = (IF handler = "anthropic" THEN isClosed ELSE TRUE)
  /\ pingTimer' = FALSE
  /\ UNCHANGED <<handler, schemas, pc, reader, out, streamClosed, state, reason,
                 nChunks, nPings, finalizeRuns, tokenUpdates, readAfterCancel, hasUsage, xaiCalls, lastMalformed>>
  /\ UNCHANGED routerVars
  /\ UNCHANGED sideVars

----------------------------------------------------------------------------
\* AnthropicCompatHandler.handleStreamingResponse: the upstream bytes are
\* passed through; usage is taken from the first message_delta or
\* message_stop event that reports a positive count.

AnthropicChunkKinds == {"other", "message_delta_usage", "message_stop_usage"}

\* AnthropicRecordsUsage without the hasUsage test.
AnthropicRecordsUsageEveryTime(k, seen) == k # "other"

\* A message_delta or message_stop event with a positive usage count is
\* recorded unless usage was recorded before.
AnthropicRecordsUsage(k, seen) == k # "other" /\ ~seen

AnthropicChunk ==
  /\ handler = "anthropic"
  /\ pc = "read"
  /\ nChunks < MaxChunks
  /\ nChunks' = nChunks + 1
  /\ readAfterCancel' = (readAfterCancel \/ cancelled)
  /\ \E k \in AnthropicChunkKinds :
       IF cancelled
       THEN \* controller.enqueue throws on the cancelled stream; so does
            \* the controller.close() of the catch
            /\ pc' = "end"
            /\ reader' = "abandoned"
            /\ UNCHANGED <<out, tokenUpdates, hasUsage>>
       ELSE /\ out' = Append(out, RawEv)
            /\ tokenUpdates' = tokenUpdates + (IF AnthropicRecordsUsage(k, hasUsage) THEN 1 ELSE 0)
            /\ hasUsage' = (hasUsage \/ k # "other")
            /\ UNCHANGED <<pc, reader>>
  /\ UNCHANGED <<handler, schemas, isClosed, pingTimer, streamClosed, cancelled,
                 state, reason, nPings, finalizeRuns, xaiCalls, lastMalformed>>
  /\ UNCHANGED routerVars
  /\ UNCHANGED sideVars

\* End of the upstream body or a read error: controller.close().
AnthropicEnd ==
  /\ handler = "anthropic"
  /\ pc = "read"
  /\ \E r \in {"ended", "failed"} : reader' = r
  /\ pc' = "end"
  /\ streamClosed' = ~cancelled
  /\ UNCHANGED <<handler, schemas, out, isClosed, pingTimer, cancelled, state, reason,
                 nChunks, nPings, finalizeRuns, tokenUpdates, readAfterCancel, hasUsage, xaiCalls, lastMalformed>>
  /\ UNCHANGED routerVars
  /\ UNCHANGED sideVars

Next ==
  \/ CompatTextChunk
  \/ CompatToolChunk
  \/ CompatFinishChunk
  \/ OpenRouterReasoningChunk
  \/ OpenRouterTextChunk
  \/ OpenRouterToolChunk
  \/ OpenRouterFinishChunk
  \/ GeminiThoughtChunk
  \/ GeminiTextChunk
  \/ GeminiFunctionCallChunk
  \/ GeminiStopChunk
  \/ UsageChunk
  \/ SkippedChunk
  \/ MalformedChunk
  \/ UpstreamDone
  \/ UpstreamEnd
  \/ ReadError
  \/ FinalizeTail
  \/ PingTick
  \/ Cancel
  \/ AnthropicChunk
  \/ AnthropicEnd

Spec == Init /\ [][Next]_vars

\* The streams in which no timer tick finds the stream idle for more than
\* a second, so that only the first ping is sent.
NextNoIdlePing ==
  \/ CompatTextChunk
  \/ CompatToolChunk
  \/ CompatFinishChunk
  \/ OpenRouterReasoningChunk
  \/ OpenRouterTextChunk
  \/ OpenRouterToolChunk
  \/ OpenRouterFinishChunk
  \/ GeminiThoughtChunk
  \/ GeminiTextChunk
  \/ GeminiFunctionCallChunk
  \/ GeminiStopChunk
  \/ UsageChunk
  \/ SkippedChunk
  \/ MalformedChunk
  \/ UpstreamDone
  \/ UpstreamEnd
  \/ ReadError
  \/ FinalizeTail
  \/ Cancel
  \/ AnthropicChunk
  \/ AnthropicEnd

SpecNoIdlePing == Init /\ [][NextNoIdlePing]_vars

\* The streams of a handler whose middleware chain holds a hook that may
\* reject.
NextHookRejects ==
  \/ CompatTextChunk
  \/ CompatToolChunk
  \/ CompatFinishChunk
  \/ OpenRouterReasoningChunk
  \/ OpenRouterTextChunk
  \/ OpenRouterToolChunk
  \/ OpenRouterFinishChunk
  \/ GeminiThoughtChunk
  \/ GeminiTextChunk
  \/ GeminiFunctionCallChunk
  \/ GeminiStopChunk
  \/ UsageChunk
  \/ SkippedChunk
  \/ MalformedChunk
  \/ UpstreamDone
  \/ UpstreamEnd
  \/ ReadError
  \/ FinalizeTail
  \/ AfterStreamCompleteRejects
  \/ PingTick
  \/ Cancel
  \/ AnthropicChunk
  \/ AnthropicEnd

SpecHookRejects == Init /\ [][NextHookRejects]_vars

----------------------------------------------------------------------------
\* One handler instance at a time: token tracking, history pruning, the
\* Gemini message conversion, upstream retries, the upstream timeout, the
\* health probe, the pruning decision, the shared adapter and the thought
\* signature middleware.  Each is a state machine of its own over one of
\* the variables session, prune, gemini, retry, call, health, pruning,
\* adapter, middleware; no stream is open and the router rests.

StreamIdle ==
  /\ handler = "compat"
  /\ schemas = FALSE
  /\ pc = "end"
  /\ reader = "ended"
  /\ out = <<>>
  /\ isClosed = TRUE
  /\ pingTimer = FALSE
  /\ streamClosed = TRUE
  /\ cancelled = FALSE
  /\ state = createStreamingState
  /\ reason = ""
  /\ nChunks = 0
  /\ nPings = 0
  /\ finalizeRuns = 0
  /\ tokenUpdates = 0
  /\ readAfterCancel = FALSE
  /\ hasUsage = FALSE
  /\ xaiCalls = 0
  /\ lastMalformed = 0

RECURSIVE Sum(_)
Sum(seq) == IF seq = <<>> THEN 0 ELSE Head(seq) + Sum(Tail(seq))

----------------------------------------------------------------------------
\* Token tracking of one handler over the streams it completes

MaxStreams == 3
MaxTokens == 2
TokenCounts == 0..MaxTokens

\* RemoteProviderHandler, OpenAIHandler, GeminiHandler and
\* AnthropicCompatHandler share one updateTokenTracking; the local handler
\* counts in writeTokenFile.
TrackingKinds == {"remote", "local"}

updateTokenTracking(s, inputTokens, outputTokens) ==
  [s EXCEPT !.sessionInputTokens = inputTokens,
            !.sessionOutputTokens = @ + outputTokens]

writeTokenFile(s, input, output) ==
  [s EXCEPT !.sessionInputTokens = (IF input > 0 THEN input ELSE @),
            !.sessionOutputTokens = @ + output]

TokenInit ==
  /\ session \in {[kind |-> k, sessionInputTokens |-> 0, sessionOutputTokens |-> 0,
                   reported |-> <<>>] : k \in TrackingKinds}
  /\ prune = Idle
  /\ gemini = Idle
  /\ retry = Idle
  /\ call = Idle
  /\ health = Idle
  /\ pruning = Idle
  /\ adapter = Idle
  /\ middleware = Idle
  /\ StreamIdle
  /\ RouterIdle

\* A stream of a cloud handler completes and reports its usage.
RemoteStreamCompleted ==
  /\ session.kind = "remote"
  /\ Len(session.reported) < MaxStreams
  /\ \E i, o \in TokenCounts :
       session' = [updateTokenTracking(session, i, o)
                     EXCEPT !.reported = Append(@, [input |-> i, output |-> o])]
  /\ UNCHANGED <<prune, gemini, retry, call, health, pruning, adapter, middleware>>
  /\ UNCHANGED <<streamVars, routerVars>>

\* A stream of the local handler completes and reports its usage.
LocalStreamCompleted ==
  /\ session.kind = "local"
  /\ Len(session.reported) < MaxStreams
  /\ \E i, o \in TokenCounts :
       session' = [writeTokenFile(session, i, o)
                     EXCEPT !.reported = Append(@, [input |-> i, output |-> o])]
  /\ UNCHANGED <<prune, gemini, retry, call, health, pruning, adapter, middleware>>
  /\ UNCHANGED <<streamVars, routerVars>>

TokenNext ==
  \/ RemoteStreamCompleted
  \/ LocalStreamCompleted

TokenSpec == TokenInit /\ [][TokenNext]_vars

----------------------------------------------------------------------------
\* LocalProviderHandler.pruneConversationHistory.  A message is a record of
\* its role, the ids of its tool_calls, its tool_call_id and its position
\* in the list handed to the function; positions count from 0 as in the
\* source.

MaxFree == 6

MinToPrune == 5
RecentWindow == 12
LookAhead == 10
SampleEvery == 3

NoId == ""

FreeKinds == {"user", "assistant", "call_a", "call_b", "result_a", "result_b"}

CallOf(kind) == IF kind = "result_a" THEN "call_a" ELSE "call_b"

\* A conversation as the client builds it: it opens with a user message, a
\* tool-call id is used by one assistant message and answered by at most
\* one result, and a result stands in the run of results that follows its
\* assistant message.
WellFormed(free) ==
  /\ free # <<>> => free[1] = "user"
  /\ \A n, k \in 1..Len(free) :
       (n # k /\ free[n] = free[k]) => free[n] \in {"user", "assistant"}
  /\ \A n \in 1..Len(free) :
       free[n] \in {"result_a", "result_b"} =>
         \E p \in 1..(n - 1) :
           /\ free[p] = CallOf(free[n])
           /\ \A k \in (p + 1)..(n - 1) : free[k] \in {"result_a", "result_b"}

Message(kind, i) ==
  [role |-> (CASE kind \in {"call_a", "call_b"} -> "assistant"
               [] kind \in {"result_a", "result_b"} -> "tool"
               [] OTHER -> kind),
   tool_calls |-> (CASE kind = "call_a" -> {"a"}
                     [] kind = "call_b" -> {"b"}
                     [] OTHER -> {}),
   tool_call_id |-> (CASE kind = "result_a" -> "a"
                       [] kind = "result_b" -> "b"
                       [] OTHER -> NoId),
   position |-> i]

\* The lists pruned here: a system message or none, then up to MaxFree
\* messages of any kind, then RecentWindow - 1 turns of plain text.
Conversation(sys, free) ==
  LET kinds == (IF sys THEN <<"system">> ELSE <<>>) \o free \o
               [n \in 1..(RecentWindow - 1) |-> IF n % 2 = 1 THEN "assistant" ELSE "user"]
  IN [n \in 1..Len(kinds) |-> Message(kinds[n], n - 1)]

Conversations ==
  {Conversation(sys, free) :
     sys \in BOOLEAN,
     free \in {f \in UNION {[1..k -> FreeKinds] : k \in 0..MaxFree} : WellFormed(f)}}

At(messages, i) == messages[i + 1]

HasToolCalls(m) == m.role = "assistant" /\ m.tool_calls # {}

IsResultOf(m, parent) == m.role = "tool" /\ m.tool_call_id \in parent.tool_calls

\* messages.findIndex(role === "user"); the second conjunct of the
\* source's test is true at every index.
firstUserIdx(messages) ==
  LET users == {i \in 0..(Len(messages) - 1) : At(messages, i).role = "user"}
  IN IF users = {} THEN -1 ELSE CHOOSE i \in users : \A j \in users : i <= j

recentStartIdx(messages) ==
  IF Len(messages) - RecentWindow > 0 THEN Len(messages) - RecentWindow ELSE 0

middleStartIdx(messages) ==
  IF firstUserIdx(messages) # -1
  THEN firstUserIdx(messages) + 1
  ELSE IF At(messages, 0).role = "system" THEN 1 ELSE 0

Middle(messages) == middleStartIdx(messages)..(recentStartIdx(messages) - 1)

\* The first loop: every assistant message of the middle section that has
\* tool calls, and the results found by looking ahead from it until a
\* message of another turn.
preservedPairs(messages) ==
  {i \in Middle(messages) :
     \/ HasToolCalls(At(messages, i))
     \/ \E p \in Middle(messages) :
          /\ HasToolCalls(At(messages, p))
          /\ p < i
          /\ i < p + LookAhead
          /\ IsResultOf(At(messages, i), At(messages, p))
          /\ \A k \in (p + 1)..(i - 1) :
               \/ IsResultOf(At(messages, k), At(messages, p))
               \/ At(messages, k).role \notin {"assistant", "user"}}

\* The second loop: every third entry of the sorted pair indices, and for
\* an assistant entry its results up to the end of the middle section.
sampledPairs(messages) ==
  LET pairs == preservedPairs(messages)
      picked == {i \in pairs : Cardinality({j \in pairs : j < i}) % SampleEvery = 0}
  IN picked \cup
     {j \in Middle(messages) :
        \E i \in picked :
          /\ At(messages, i).role = "assistant"
          /\ j > i
          /\ IsResultOf(At(messages, j), At(messages, i))}

preservedIndices(messages) ==
  (IF At(messages, 0).role = "system" THEN {0} ELSE {})
    \cup (IF firstUserIdx(messages) > 0 THEN {firstUserIdx(messages)} ELSE {})
    \cup sampledPairs(messages)
    \cup (recentStartIdx(messages)..(Len(messages) - 1))

pruneConversationHistory(messages) ==
  IF Len(messages) <= MinToPrune
  THEN [pruned |-> messages, removedCount |-> 0]
  ELSE LET keep == preservedIndices(messages)
           pruned == SelectSeq(messages, LAMBDA m : m.position \in keep)
       IN [pruned |-> pruned, removedCount |-> Len(messages) - Len(pruned)]

PruneInit ==
  /\ prune \in {[messages |-> c, pruned |-> <<>>, removedCount |-> 0, done |-> FALSE] :
                  c \in Conversations}
  /\ session = Idle
  /\ gemini = Idle
  /\ retry = Idle
  /\ call = Idle
  /\ health = Idle
  /\ pruning = Idle
  /\ adapter = Idle
  /\ middleware = Idle
  /\ StreamIdle
  /\ RouterIdle

\* handle() prunes the converted messages before the request is built.
Prune ==
  /\ ~prune.done
  /\ LET res == pruneConversationHistory(prune.messages)
     IN prune' = [prune EXCEPT !.pruned = res.pruned,
                               !.removedCount = res.removedCount,
                               !.done = TRUE]
  /\ UNCHANGED <<session, gemini, retry, call, health, pruning, adapter, middleware>>
  /\ UNCHANGED <<streamVars, routerVars>>

PruneNext == Prune

PruneSpec == PruneInit /\ [][PruneNext]_vars

----------------------------------------------------------------------------
\* GeminiHandler.convertToGeminiMessages over the requests one handler
\* instance receives.  toolCallMap is a field of the instance and lives as
\* long as it.

MaxGeminiRequests == 2
MaxBlocks == 2

ToolUseIds == {"toolu_1", "toolu_2"}

\* The name of the tool a tool_use id was issued for.
NameOf(id) == IF id = "toolu_1" THEN "Read" ELSE "Bash"

Block(type, id) ==
  [type |-> type,
   id |-> (IF type = "tool_use" THEN id ELSE ""),
   name |-> (IF type = "tool_use" THEN NameOf(id) ELSE ""),
   tool_use_id |-> (IF type = "tool_result" THEN id ELSE ""),
   content |-> (IF type = "tool_result" THEN "result of " \o id ELSE "")]

\* The user messages drawn carry tool results only.
UserBlocks == {Block("tool_result", id) : id \in ToolUseIds}
AssistantBlocks == {Block("text", "")} \cup {Block("tool_use", id) : id \in ToolUseIds}

Contents(blocks) == UNION {[1..k -> blocks] : k \in 1..MaxBlocks}

UserMessages == {[role |-> "user", content |-> c] : c \in Contents(UserBlocks)}
AssistantMessages == {[role |-> "assistant", content |-> c] : c \in Contents(AssistantBlocks)}

\* claudeRequest.messages: one message, or an assistant message and the
\* user message that follows it.
ClaudeRequests ==
  {<<m>> : m \in UserMessages \cup AssistantMessages}
    \cup {<<a, u>> : a \in AssistantMessages, u \in UserMessages}

Part(kind, name, response) == [kind |-> kind, name |-> name, response |-> response]

NoToolCalls == [id \in {} |-> ""]

\* toolCallMap.set that stores nothing.
toolCallMapSetNothing(map, id, name) == map

\* this.toolCallMap.set(block.id, block.name)
toolCallMapSet(map, id, name) ==
  [x \in (DOMAIN map) \cup {id} |-> IF x = id THEN name ELSE map[x]]

\* The parts of a user message's content array; a tool_result whose id has
\* no name in the map (or an empty one) is logged and left out.
RECURSIVE convertUserMessageParts(_, _)
convertUserMessageParts(map, content) ==
  IF content = <<>>
  THEN <<>>
  ELSE LET block == Head(content)
           rest == convertUserMessageParts(map, Tail(content))
       IN CASE block.type = "text" -> <<Part("text", "", "")>> \o rest
            [] block.type = "tool_result" ->
                 IF block.tool_use_id \in DOMAIN map /\ map[block.tool_use_id] # ""
                 THEN <<Part("functionResponse", map[block.tool_use_id], block.content)>> \o rest
                 ELSE rest
            [] OTHER -> rest

\* The parts of an assistant message's content array, and the map after
\* its tool_use blocks were recorded.
RECURSIVE convertAssistantMessageParts(_, _)
convertAssistantMessageParts(map, content) ==
  IF content = <<>>
  THEN [parts |-> <<>>, map |-> map]
  ELSE LET block == Head(content)
           map1 == IF block.type = "tool_use"
                   THEN toolCallMapSet(map, block.id, block.name)
                   ELSE map
           rest == convertAssistantMessageParts(map1, Tail(content))
           part == CASE block.type = "text" -> <<Part("text", "", "")>>
                     [] block.type = "tool_use" -> <<Part("functionCall", block.name, "")>>
                     [] OTHER -> <<>>
       IN [parts |-> part \o rest.parts, map |-> rest.map]

\* The Gemini messages of a request, message after message, and the map
\* after the request.
RECURSIVE convertToGeminiMessages(_, _)
convertToGeminiMessages(map, messages) ==
  IF messages = <<>>
  THEN [messages |-> <<>>, map |-> map]
  ELSE LET msg == Head(messages)
       IN IF msg.role = "user"
          THEN LET parts == convertUserMessageParts(map, msg.content)
                   rest == convertToGeminiMessages(map, Tail(messages))
               IN [messages |-> (IF parts # <<>>
                                 THEN <<[role |-> "user", parts |-> parts]>>
                                 ELSE <<>>) \o rest.messages,
                   map |-> rest.map]
          ELSE LET conv == convertAssistantMessageParts(map, msg.content)
                   rest == convertToGeminiMessages(conv.map, Tail(messages))
               IN [messages |-> (IF conv.parts # <<>>
                                 THEN <<[role |-> "model", parts |-> conv.parts]>>
                                 ELSE <<>>) \o rest.messages,
                   map |-> rest.map]

\* The blocks of a request in the order of the conversation.
RECURSIVE BlocksOf(_)
BlocksOf(messages) ==
  IF messages = <<>> THEN <<>> ELSE Head(messages).content \o BlocksOf(Tail(messages))

ToolUsesOf(messages) ==
  {BlocksOf(messages)[n].id :
     n \in {k \in 1..Len(BlocksOf(messages)) : BlocksOf(messages)[k].type = "tool_use"}}

\* A request a client sends: a tool_result answers a tool_use that stands
\* earlier in the conversation, in this request or in one sent before.
AnswersEarlierCalls(known, messages) ==
  LET blocks == BlocksOf(messages)
  IN \A n \in 1..Len(blocks) :
       blocks[n].type = "tool_result" =>
         \/ blocks[n].tool_use_id \in known
         \/ \E k \in 1..(n - 1) :
              blocks[k].type = "tool_use" /\ blocks[k].id = blocks[n].tool_use_id

GeminiInit ==
  /\ gemini = [toolCallMap |-> NoToolCalls, used |-> {}, request |-> <<>>,
               messages |-> <<>>, n |-> 0]
  /\ session = Idle
  /\ prune = Idle
  /\ retry = Idle
  /\ call = Idle
  /\ health = Idle
  /\ pruning = Idle
  /\ adapter = Idle
  /\ middleware = Idle
  /\ StreamIdle
  /\ RouterIdle

\* handle(): the request's messages are converted for the upstream call.
GeminiRequest ==
  /\ gemini.n < MaxGeminiRequests
  /\ \E req \in ClaudeRequests :
       /\ AnswersEarlierCalls(gemini.used, req)
       /\ LET conv == convertToGeminiMessages(gemini.toolCallMap, req)
          IN gemini' = [toolCallMap |-> conv.map,
                        used |-> gemini.used \cup ToolUsesOf(req),
                        request |-> req,
                        messages |-> conv.messages,
                        n |-> gemini.n + 1]
  /\ UNCHANGED <<session, prune, retry, call, health, pruning, adapter, middleware>>
  /\ UNCHANGED <<streamVars, routerVars>>

GeminiNext == GeminiRequest

GeminiSpec == GeminiInit /\ [][GeminiNext]_vars

----------------------------------------------------------------------------
\* The upstream attempts of a cloud handler for the client requests it
\* serves one after the other.  OpenAIHandler.handle and GeminiHandler.handle
\* call fetch once.  OpenRouterHandler.handle calls fetch once and then
\* enters a for loop whose bound, maxRetries, is declared nowhere: the
\* first test of the loop throws a ReferenceError and handle() rejects.

MaxClientRequests == 3

CloudKinds == {"openrouter", "openai", "gemini"}

\* What one fetch comes to: a response with a status, or a rejection with
\* a socket error code.
Outcomes == {"200", "429", "500", "ECONNRESET", "ETIMEDOUT"}
NetworkErrors == {"ECONNRESET", "ETIMEDOUT"}

NoAnswer == [status |-> "", type |-> ""]

\* handle() rejected: the framework answers with status 500.
Rejected == [status |-> "500", type |-> ""]

\* if (!response.ok) return c.json({ error: errorText }, response.status)
DirectAnswer(o) ==
  CASE o \in NetworkErrors -> Rejected
    [] o = "200" -> [status |-> "200", type |-> "stream"]
    [] OTHER -> [status |-> o, type |-> ""]

RetryInit ==
  /\ retry \in {[handler |-> h, pc |-> "idle", attempts |-> 0, outcomes |-> <<>>,
                 answer |-> NoAnswer, answers |-> <<>>] : h \in CloudKinds}
  /\ session = Idle
  /\ prune = Idle
  /\ gemini = Idle
  /\ call = Idle
  /\ health = Idle
  /\ pruning = Idle
  /\ adapter = Idle
  /\ middleware = Idle
  /\ StreamIdle
  /\ RouterIdle

\* One request to the direct OpenAI or the Gemini handler.
DirectRequest ==
  /\ retry.handler \in {"openai", "gemini"}
  /\ retry.pc = "idle"
  /\ Len(retry.answers) < MaxClientRequests
  /\ \E o \in Outcomes :
       retry' = [retry EXCEPT !.attempts = 1,
                              !.outcomes = <<o>>,
                              !.answer = DirectAnswer(o),
                              !.answers = Append(@, DirectAnswer(o))]
  /\ UNCHANGED <<session, prune, gemini, call, health, pruning, adapter, middleware>>
  /\ UNCHANGED <<streamVars, routerVars>>

\* One request to the aggregator handler, up to the end of its first fetch.
OpenRouterFetch ==
  /\ retry.handler = "openrouter"
  /\ retry.pc = "idle"
  /\ Len(retry.answers) < MaxClientRequests
  /\ \E o \in Outcomes :
       IF o \in NetworkErrors
       THEN retry' = [retry EXCEPT !.attempts = 1,
                                   !.outcomes = <<o>>,
                                   !.answer = Rejected,
                                   !.answers = Append(@, Rejected)]
       ELSE retry' = [retry EXCEPT !.attempts = 1,
                                   !.outcomes = <<o>>,
                                   !.answer = NoAnswer,
                                   !.pc = "loop"]
  /\ UNCHANGED <<session, prune, gemini, call, health, pruning, adapter, middleware>>
  /\ UNCHANGED <<streamVars, routerVars>>

\* for (let attempt = 1; attempt <= maxRetries; ...): the test throws.
OpenRouterRetryLoop ==
  /\ retry.pc = "loop"
  /\ retry' = [retry EXCEPT !.answer = Rejected,
                            !.answers = Append(@, Rejected),
                            !.pc = "idle"]
  /\ UNCHANGED <<session, prune, gemini, call, health, pruning, adapter, middleware>>
  /\ UNCHANGED <<streamVars, routerVars>>

RetryNext ==
  \/ DirectRequest
  \/ OpenRouterFetch
  \/ OpenRouterRetryLoop

RetrySpec == RetryInit /\ [][RetryNext]_vars

----------------------------------------------------------------------------
\* One upstream call, from fetch() to the end of the streamed body, and the
\* timers that can end it.  Time passes in periods of ten minutes during
\* which the upstream sends nothing.  The local handler arms a ten-minute
\* timer around fetch() and clears it when the response headers arrive; it
\* also hands fetch() an undici agent with ten-minute header and body
\* timeouts, which a runtime whose fetch takes no dispatcher ignores.  The
\* cloud handlers pass no signal and arm no timer.

MaxBodyChunks == 4
MaxSilence == 2

CallKinds == {"local", "openai", "gemini"}

CallInit ==
  /\ call \in {[handler |-> h, agent |-> a, phase |-> "headers",
                timeoutId |-> (h = "local"), chunks |-> 0, silence |-> 0] :
                 h \in CallKinds, a \in BOOLEAN}
  /\ call.agent => call.handler = "local"
  /\ session = Idle
  /\ prune = Idle
  /\ gemini = Idle
  /\ retry = Idle
  /\ health = Idle
  /\ pruning = Idle
  /\ adapter = Idle
  /\ middleware = Idle
  /\ StreamIdle
  /\ RouterIdle

\* A timer that ends the call is due when ten silent minutes are over.
TimeoutDue(c) ==
  \/ c.phase = "headers" /\ c.timeoutId
  \/ c.agent

\* fetch() resolves: clearTimeout(timeoutId), then the body is read.
HeadersArrive ==
  /\ call.phase = "headers"
  /\ call' = [call EXCEPT !.phase = "body", !.timeoutId = FALSE, !.silence = 0]
  /\ UNCHANGED <<session, prune, gemini, retry, health, pruning, adapter, middleware>>
  /\ UNCHANGED <<streamVars, routerVars>>

\* reader.read() resolves with data.
BodyChunk ==
  /\ call.phase = "body"
  /\ call.chunks < MaxBodyChunks
  /\ call' = [call EXCEPT !.chunks = @ + 1, !.silence = 0]
  /\ UNCHANGED <<session, prune, gemini, retry, health, pruning, adapter, middleware>>
  /\ UNCHANGED <<streamVars, routerVars>>

\* reader.read() resolves with done.
BodyEnd ==
  /\ call.phase = "body"
  /\ call' = [call EXCEPT !.phase = "closed"]
  /\ UNCHANGED <<session, prune, gemini, retry, health, pruning, adapter, middleware>>
  /\ UNCHANGED <<streamVars, routerVars>>

\* Ten more minutes in which the upstream sends nothing and does not close
\* the connection: a due timer aborts the call, which rejects the pending
\* fetch() or read(); with no timer the call stays pending.
TenSilentMinutes ==
  /\ call.phase \in {"headers", "body"}
  /\ call.silence < MaxSilence
  /\ call' = (IF TimeoutDue(call)
              THEN [call EXCEPT !.phase = "aborted"]
              ELSE [call EXCEPT !.silence = @ + 1])
  /\ UNCHANGED <<session, prune, gemini, retry, health, pruning, adapter, middleware>>
  /\ UNCHANGED <<streamVars, routerVars>>

CallNext ==
  \/ HeadersArrive
  \/ BodyChunk
  \/ BodyEnd
  \/ TenSilentMinutes

CallSpec == CallInit /\ [][CallNext]_vars

----------------------------------------------------------------------------
\* LocalProviderHandler.checkHealth as called by handle(): two handler
\* instances of one base URL (two models of one local server), the static
\* healthCheckCache they share and the clock, which advances in steps of
\* 30 seconds.

MaxTicks == 4

HEALTH_CHECK_TTL == 60000

LocalInstances == {1, 2}

Ms(ticks) == ticks * 30000

NoCached == [present |-> FALSE, healthy |-> FALSE, timestamp |-> 0]

NoProbe == [instance |-> 0, at |-> 0, probes |-> <<>>, obtainedAt |-> 0]

HealthInit ==
  /\ health = [now |-> 0,
               healthCheckCache |-> NoCached,
               handlers |-> [i \in LocalInstances |->
                              [healthChecked |-> FALSE, isHealthy |-> FALSE, obtainedAt |-> 0]],
               last |-> NoProbe,
               forwarded |-> FALSE]
  /\ session = Idle
  /\ prune = Idle
  /\ gemini = Idle
  /\ retry = Idle
  /\ call = Idle
  /\ pruning = Idle
  /\ adapter = Idle
  /\ middleware = Idle
  /\ StreamIdle
  /\ RouterIdle

\* checkHealth of one instance at time now, the local server answering
\* GET /api/tags with 2xx iff tags and GET /v1/models with 2xx iff models.
\* The result names the requests sent and the time at which the health
\* value now held by the instance was obtained.
checkHealth(h, i, tags, models) ==
  LET me == h.handlers[i]
      cached == h.healthCheckCache
  IN IF me.healthChecked
     THEN [h EXCEPT !.last = [instance |-> i, at |-> h.now, probes |-> <<>>,
                              obtainedAt |-> me.obtainedAt]]
     ELSE IF cached.present /\ Ms(h.now - cached.timestamp) < HEALTH_CHECK_TTL
     THEN [h EXCEPT !.handlers[i] = [healthChecked |-> TRUE, isHealthy |-> cached.healthy,
                                     obtainedAt |-> cached.timestamp],
                    !.last = [instance |-> i, at |-> h.now, probes |-> <<>>,
                              obtainedAt |-> cached.timestamp]]
     ELSE [h EXCEPT !.handlers[i] = [healthChecked |-> TRUE, isHealthy |-> (tags \/ models),
                                     obtainedAt |-> h.now],
                    !.healthCheckCache = [present |-> TRUE, healthy |-> (tags \/ models),
                                          timestamp |-> h.now],
                    !.last = [instance |-> i, at |-> h.now,
                              probes |-> (IF tags THEN <<"/api/tags">>
                                          ELSE <<"/api/tags", "/v1/models">>),
                              obtainedAt |-> h.now]]

\* handle() of instance i: if (!this.healthChecked) await this.checkHealth().
\* An instance whose flag is set goes on to the upstream call unprobed; one
\* whose check just failed answers connection_error and returns; every
\* other request goes on to the fetch of the chat endpoint (forwarded).
LocalRequest ==
  /\ \E i \in LocalInstances, tags \in BOOLEAN, models \in BOOLEAN :
       LET h == checkHealth(health, i, tags, models)
       IN health' = [h EXCEPT !.forwarded = health.handlers[i].healthChecked
                                              \/ h.handlers[i].isHealthy]
  /\ UNCHANGED <<session, prune, gemini, retry, call, pruning, adapter, middleware>>
  /\ UNCHANGED <<streamVars, routerVars>>

\* Thirty seconds pass.
ClockTick ==
  /\ health.now < MaxTicks
  /\ health' = [health EXCEPT !.now = @ + 1]
  /\ UNCHANGED <<session, prune, gemini, retry, call, pruning, adapter, middleware>>
  /\ UNCHANGED <<streamVars, routerVars>>

HealthNext ==
  \/ LocalRequest
  \/ ClockTick

HealthSpec == HealthInit /\ [][HealthNext]_vars

----------------------------------------------------------------------------
\* LocalProviderHandler.handle: when the conversation is pruned

MaxLocalRequests == 3
MaxSessionOutput == 3

\* Context windows in the token unit of the model: none known, or four units.
ContextWindows == {0, 4}

\* Converted message lists of a request: too short to prune, longer but
\* inside the recent window, and long enough for the middle to be removed.
RequestLengths == {MinToPrune - 2, MinToPrune + 3, RecentWindow + 4}

PlainTurns(n) ==
  [k \in 1..n |-> Message(IF k % 2 = 1 THEN "user" ELSE "assistant", k - 1)]

NoPrepared == [messages |-> <<>>, usageHigh |-> FALSE, sent |-> <<>>]

PruningInit ==
  /\ pruning \in {[contextWindow |-> w, sessionInputTokens |-> 0, sessionOutputTokens |-> 0,
                   pruningEnabled |-> FALSE, n |-> 0, last |-> NoPrepared] :
                    w \in ContextWindows}
  /\ session = Idle
  /\ prune = Idle
  /\ gemini = Idle
  /\ retry = Idle
  /\ call = Idle
  /\ health = Idle
  /\ adapter = Idle
  /\ middleware = Idle
  /\ StreamIdle
  /\ RouterIdle

\* contextUsagePercent > 80
contextUsageHigh(h) ==
  /\ h.contextWindow > 0
  /\ (h.sessionInputTokens + h.sessionOutputTokens) * 100 > 80 * h.contextWindow

\* The condition under which handle() calls pruneConversationHistory.
shouldPrune(h, messages) ==
  contextUsageHigh(h) /\ ~h.pruningEnabled /\ Len(messages) > MinToPrune

\* handle() from the conversion of the messages to the pruning decision:
\* the messages that go into the upstream request.
PrepareRequest ==
  /\ pruning.n < MaxLocalRequests
  /\ \E len \in RequestLengths :
       LET messages == PlainTurns(len)
           result == pruneConversationHistory(messages)
           applied == shouldPrune(pruning, messages) /\ result.removedCount > 0
       IN pruning' = [pruning EXCEPT
                        !.pruningEnabled = @ \/ applied,
                        !.n = @ + 1,
                        !.last = [messages |-> messages,
                                  usageHigh |-> contextUsageHigh(pruning),
                                  sent |-> IF applied THEN result.pruned ELSE messages]]
  /\ UNCHANGED <<session, prune, gemini, retry, call, health, adapter, middleware>>
  /\ UNCHANGED <<streamVars, routerVars>>

\* A stream of the handler completes and reports its usage to writeTokenFile.
PruningStreamCompleted ==
  /\ pruning.n > 0
  /\ \E input \in TokenCounts, output \in TokenCounts :
       /\ pruning.sessionOutputTokens + output <= MaxSessionOutput
       /\ pruning' = writeTokenFile(pruning, input, output)
  /\ UNCHANGED <<session, prune, gemini, retry, call, health, adapter, middleware>>
  /\ UNCHANGED <<streamVars, routerVars>>

PruningNext ==
  \/ PrepareRequest
  \/ PruningStreamCompleted

PruningSpec == PruningInit /\ [][PruningNext]_vars

----------------------------------------------------------------------------
\* One handler's adapter and the streams that share it

MaxFlights == 2
MaxPieces == 3

AdapterKinds == {"grok", "gemini"}

\* Text deltas as the adapters tell them apart.  Grok: plain text, the
\* opening of an <xai:function_call> element, its closing tag.  Gemini: a
\* line matching a reasoning pattern, a line matching a continuation
\* pattern, a line of more than 20 characters matching neither.
Pieces(kind) ==
  IF kind = "grok" THEN {"text", "open", "close"}
  ELSE {"reasoning", "continuation", "substantial"}

SignatureIds == {"tool_1"}

NoStream == [phase |-> "none", fed |-> <<>>, text |-> <<>>, calls |-> 0]

\* A new adapter: the field initialisers of GrokAdapter and GeminiAdapter.
NewAdapter == [xmlBuffer |-> <<>>, inReasoningBlock |-> FALSE, thoughtSignatures |-> {}]

AdapterInit ==
  /\ adapter \in {[kind |-> k, state |-> NewAdapter, started |-> 0, overlapped |-> FALSE,
                   streams |-> [n \in 1..MaxFlights |-> NoStream]] : k \in AdapterKinds}
  /\ session = Idle
  /\ prune = Idle
  /\ gemini = Idle
  /\ retry = Idle
  /\ call = Idle
  /\ health = Idle
  /\ pruning = Idle
  /\ middleware = Idle
  /\ StreamIdle
  /\ RouterIdle

\* The matches of the xAI pattern in the buffer b from position i on:
\* the number of complete elements and the buffer with them removed.
\* openAt is the position of the opening still waiting for its closing tag.
RECURSIVE GrokScan(_, _, _, _, _)
GrokScan(b, i, openAt, rest, calls) ==
  IF i > Len(b)
  THEN [rest |-> IF openAt # 0 THEN rest \o SubSeq(b, openAt, Len(b)) ELSE rest,
        calls |-> calls]
  ELSE IF openAt = 0
       THEN IF b[i] = "open" THEN GrokScan(b, i + 1, i, rest, calls)
            ELSE GrokScan(b, i + 1, 0, Append(rest, b[i]), calls)
       ELSE IF b[i] = "close" THEN GrokScan(b, i + 1, 0, rest, calls + 1)
            ELSE GrokScan(b, i + 1, openAt, rest, calls)

\* GrokAdapter.processTextContent
GrokProcessTextContent(a, piece) ==
  LET b == Append(a.xmlBuffer, piece)
      m == GrokScan(b, 1, 0, <<>>, 0)
  IN IF m.calls = 0
     THEN IF \E i \in 1..Len(b) : b[i] = "open"
          THEN [a |-> [a EXCEPT !.xmlBuffer = b], cleanedText |-> <<>>, extractedToolCalls |-> 0]
          ELSE [a |-> [a EXCEPT !.xmlBuffer = <<>>], cleanedText |-> b, extractedToolCalls |-> 0]
     ELSE [a |-> [a EXCEPT !.xmlBuffer = <<>>], cleanedText |-> m.rest,
           extractedToolCalls |-> m.calls]

\* GeminiAdapter.processTextContent for a delta of one line
GeminiProcessTextContent(a, piece) ==
  IF piece = "reasoning"
  THEN [a |-> [a EXCEPT !.inReasoningBlock = TRUE], cleanedText |-> <<>>, extractedToolCalls |-> 0]
  ELSE IF a.inReasoningBlock /\ piece = "continuation"
  THEN [a |-> a, cleanedText |-> <<>>, extractedToolCalls |-> 0]
  ELSE IF a.inReasoningBlock /\ piece = "substantial"
  THEN [a |-> [a EXCEPT !.inReasoningBlock = FALSE], cleanedText |-> <<piece>>,
        extractedToolCalls |-> 0]
  ELSE [a |-> a, cleanedText |-> <<piece>>, extractedToolCalls |-> 0]

AdapterProcessTextContent(kind, a, piece) ==
  IF kind = "grok" THEN GrokProcessTextContent(a, piece) ELSE GeminiProcessTextContent(a, piece)

\* BaseModelAdapter.reset: the default, which does nothing.
resetDoesNothing(kind, a) == a

\* reset() of GrokAdapter and of GeminiAdapter
reset(kind, a) ==
  IF kind = "grok"
  THEN [a EXCEPT !.xmlBuffer = <<>>]
  ELSE [a EXCEPT !.thoughtSignatures = {}, !.inReasoningBlock = FALSE]

\* handle(): the adapter of the handler is reset and prepares the request
\* (prepareRequest keeps no state); the response stream of the request is
\* then processed chunk by chunk while other requests may arrive.
HandleRequest ==
  /\ adapter.started < MaxFlights
  /\ LET k == adapter.started + 1
     IN adapter' = [adapter EXCEPT
                      !.state = reset(adapter.kind, @),
                      !.started = k,
                      !.overlapped = @ \/ \E n \in 1..MaxFlights : adapter.streams[n].phase = "open",
                      !.streams[k].phase = "open"]
  /\ UNCHANGED <<session, prune, gemini, retry, call, health, pruning, middleware>>
  /\ UNCHANGED <<streamVars, routerVars>>

\* A text delta of stream k goes through adapter.processTextContent.
AdapterTextDelta ==
  /\ \E k \in 1..MaxFlights, piece \in Pieces(adapter.kind) :
       /\ adapter.streams[k].phase = "open"
       /\ Sum([n \in 1..MaxFlights |-> Len(adapter.streams[n].fed)]) < MaxPieces
       /\ LET res == AdapterProcessTextContent(adapter.kind, adapter.state, piece)
          IN adapter' = [adapter EXCEPT
                           !.state = res.a,
                           !.streams[k].fed = Append(@, piece),
                           !.streams[k].text = @ \o res.cleanedText,
                           !.streams[k].calls = @ + res.extractedToolCalls]
  /\ UNCHANGED <<session, prune, gemini, retry, call, health, pruning, middleware>>
  /\ UNCHANGED <<streamVars, routerVars>>

\* GeminiAdapter.extractThoughtSignaturesFromReasoningDetails with one
\* reasoning.encrypted entry.
AdapterReasoningDetails ==
  /\ adapter.kind = "gemini"
  /\ \E k \in 1..MaxFlights, id \in SignatureIds :
       /\ adapter.streams[k].phase = "open"
       /\ id \notin adapter.state.thoughtSignatures
       /\ adapter' = [adapter EXCEPT !.state.thoughtSignatures = @ \cup {id}]
  /\ UNCHANGED <<session, prune, gemini, retry, call, health, pruning, middleware>>
  /\ UNCHANGED <<streamVars, routerVars>>

\* The stream of request k ends.
AdapterStreamEnd ==
  /\ \E k \in 1..MaxFlights :
       /\ adapter.streams[k].phase = "open"
       /\ adapter' = [adapter EXCEPT !.streams[k].phase = "done"]
  /\ UNCHANGED <<session, prune, gemini, retry, call, health, pruning, middleware>>
  /\ UNCHANGED <<streamVars, routerVars>>

AdapterNext ==
  \/ HandleRequest
  \/ AdapterTextDelta
  \/ AdapterReasoningDetails
  \/ AdapterStreamEnd

AdapterSpec == AdapterInit /\ [][AdapterNext]_vars

----------------------------------------------------------------------------
\* GeminiThoughtSignatureMiddleware (gemini-thought-signature.ts), as one
\* handler's streams and requests call it

MaxMwStreams == 2
MaxDeltas == 2
MaxCallIds == 1

NoCallId == 0

\* The tool-call ids of the calls of stream k.
IdsOf(k) == {10 * k + j : j \in 1..MaxCallIds}

\* The reasoning_details entry carried by the n-th delta of stream k.
DetailOf(k, n) == 100 * k + n

NoMetadata == [reasoning_details |-> <<>>, tool_call_ids |-> {}]

NoMwStream == [phase |-> "none", metadata |-> NoMetadata, delivered |-> NoMetadata, nDeltas |-> 0]

\* The calls of one assistant message: calls that one stream made.
CallSets == UNION {(SUBSET IdsOf(k)) \ {{}} : k \in 1..MaxMwStreams}

RequestMessages ==
  {[role |-> "user", tool_calls |-> {}, reasoning_details |-> <<>>]}
    \cup {[role |-> "assistant", tool_calls |-> ids, reasoning_details |-> <<>>] :
            ids \in CallSets}

MiddlewareInit ==
  /\ middleware = [persistentReasoningDetails |-> <<>>,
                   streams |-> [k \in 1..MaxMwStreams |-> NoMwStream],
                   completed |-> <<>>,
                   last |-> [messages |-> <<>>, after |-> {}]]
  /\ session = Idle
  /\ prune = Idle
  /\ gemini = Idle
  /\ retry = Idle
  /\ call = Idle
  /\ health = Idle
  /\ pruning = Idle
  /\ adapter = Idle
  /\ StreamIdle
  /\ RouterIdle

\* afterStreamChunk with the reasoning_details of the delta replacing those
\* accumulated so far.
afterStreamChunkKeepsLast(metadata, details, id) ==
  [reasoning_details |-> IF details # <<>> THEN details ELSE metadata.reasoning_details,
   tool_call_ids |-> metadata.tool_call_ids \cup (IF id # NoCallId THEN {id} ELSE {})]

\* afterStreamChunk: the reasoning_details of the delta are pushed onto the
\* accumulated array, the id of its tool call is added to the set.
afterStreamChunk(metadata, details, id) ==
  [reasoning_details |-> metadata.reasoning_details \o details,
   tool_call_ids |-> metadata.tool_call_ids \cup (IF id # NoCallId THEN {id} ELSE {})]

\* afterStreamComplete: the new contents of the cache.
afterStreamComplete(cache, metadata) ==
  IF Len(metadata.reasoning_details) > 0 /\ Cardinality(metadata.tool_call_ids) > 0
  THEN Append(cache, metadata)
  ELSE cache

\* beforeRequest for one message: the reasoning_details of the first cache
\* entry that shares a tool-call id with the message.
Inject(cache, msg) ==
  LET hits == {i \in 1..Len(cache) : msg.tool_calls \cap cache[i].tool_call_ids # {}}
  IN IF msg.role = "assistant" /\ msg.tool_calls # {} /\ hits # {}
     THEN [msg EXCEPT !.reasoning_details =
             cache[CHOOSE i \in hits : \A j \in hits : i <= j].reasoning_details]
     ELSE msg

beforeRequest(cache, messages) ==
  IF Len(cache) = 0 THEN messages
  ELSE [i \in 1..Len(messages) |-> Inject(cache, messages[i])]

\* The response stream of a request begins: its metadata map is new.
MwStreamStart ==
  /\ \E k \in 1..MaxMwStreams :
       /\ middleware.streams[k].phase = "none"
       /\ \A j \in 1..(k - 1) : middleware.streams[j].phase # "none"
       /\ middleware' = [middleware EXCEPT !.streams[k].phase = "open"]
  /\ UNCHANGED <<session, prune, gemini, retry, call, health, pruning, adapter>>
  /\ UNCHANGED <<streamVars, routerVars>>

\* A chunk with a delta, which may carry one reasoning_details entry and a
\* tool call with or without an id.
MwStreamChunk ==
  /\ \E k \in 1..MaxMwStreams, hasDetail \in BOOLEAN :
     \E id \in IdsOf(k) \cup {NoCallId} :
       LET st == middleware.streams[k]
           details == IF hasDetail THEN <<DetailOf(k, st.nDeltas + 1)>> ELSE <<>>
       IN /\ st.phase = "open"
          /\ Sum([n \in 1..MaxMwStreams |-> middleware.streams[n].nDeltas]) < MaxDeltas
          /\ middleware' = [middleware EXCEPT
               !.streams[k].metadata = afterStreamChunk(@, details, id),
               !.streams[k].delivered =
                   [reasoning_details |-> @.reasoning_details \o details,
                    tool_call_ids |-> @.tool_call_ids \cup (IF id # NoCallId THEN {id} ELSE {})],
               !.streams[k].nDeltas = @ + 1]
  /\ UNCHANGED <<session, prune, gemini, retry, call, health, pruning, adapter>>
  /\ UNCHANGED <<streamVars, routerVars>>

\* finalize of the stream calls afterStreamComplete with its metadata.
MwStreamComplete ==
  /\ \E k \in 1..MaxMwStreams :
       /\ middleware.streams[k].phase = "open"
       /\ middleware' = [middleware EXCEPT
            !.persistentReasoningDetails = afterStreamComplete(@, middleware.streams[k].metadata),
            !.streams[k].phase = "done",
            !.completed = Append(@, k)]
  /\ UNCHANGED <<session, prune, gemini, retry, call, health, pruning, adapter>>
  /\ UNCHANGED <<streamVars, routerVars>>

\* handle() passes the messages of the payload through beforeRequest;
\* the payload here holds one message of the conversation.
MwBeforeRequest ==
  /\ \E msg \in RequestMessages :
       middleware' = [middleware EXCEPT
         !.last = [messages |-> beforeRequest(middleware.persistentReasoningDetails, <<msg>>),
                   after |-> {k \in 1..MaxMwStreams : middleware.streams[k].phase = "done"}]]
  /\ UNCHANGED <<session, prune, gemini, retry, call, health, pruning, adapter>>
  /\ UNCHANGED <<streamVars, routerVars>>

MiddlewareNext ==
  \/ MwStreamStart
  \/ MwStreamChunk
  \/ MwStreamComplete
  \/ MwBeforeRequest

MiddlewareSpec == MiddlewareInit /\ [][MiddlewareNext]_vars

----------------------------------------------------------------------------
\* Properties of the emitted event sequence

Converting == handler \in {"compat", "openrouter", "gemini"}

IsStart(e) == e.type = "content_block_start"
IsDelta(e) == e.type = "content_block_delta"
IsStop(e) == e.type = "content_block_stop"

Positions(t) == {j \in 1..Len(out) : out[j].type = t}

\* The block started at position i is still open just before position j.
OpenBefore(i, j) ==
  /\ i < j
  /\ IsStart(out[i])
  /\ \A k \in (i + 1)..(j - 1) : ~(IsStop(out[k]) /\ out[k].index = out[i].index)

\* One step of the recogniser of
\*   message_start ping ((start delta* stop) | ping)* message_delta message_stop [DONE]
GrammarStep(q, e) ==
  CASE q = "init" /\ e.type = "message_start" -> "started"
    [] q = "started" /\ e.type = "ping" -> "body"
    [] q = "body" /\ e.type = "ping" -> "body"
    [] q = "body" /\ IsStart(e) -> "block"
    [] q = "block" /\ IsDelta(e) -> "block"
    [] q = "block" /\ IsStop(e) -> "body"
    [] q = "body" /\ e.type = "message_delta" -> "delta"
    [] q = "delta" /\ e.type = "message_stop" -> "stop"
    [] q = "stop" /\ e.type = "[DONE]" -> "done"
    [] OTHER -> "bad"

RECURSIVE Grammar(_, _, _)
Grammar(seq, i, q) ==
  IF i > Len(seq) THEN q ELSE Grammar(seq, i + 1, GrammarStep(q, seq[i]))

\* C1: once a stream that did not end in an error has written its [DONE]
\* sentinel, the events written to the client are exactly message_start,
\* ping, whole blocks and pings, message_delta, message_stop, [DONE], and
\* nothing follows the sentinel.
C1_SseWellFormed ==
  (Converting /\ reason # "error" /\ Positions("[DONE]") # {})
    => Grammar(out, 1, "init") = "done"

\* C2: every content_block_stop carries the index of a block that was
\* started earlier in the stream and is not stopped yet.
C2_StopMatchesOpenBlock ==
  \A j \in 1..Len(out) :
    IsStop(out[j]) =>
      \E i \in 1..(j - 1) : OpenBefore(i, j) /\ out[i].index = out[j].index

\* A finished stream in which a text block and a tool_use block were both
\* stopped, the client being connected to the end.
C2_Witness ==
  /\ Converting
  /\ pc = "end"
  /\ streamClosed
  /\ \E i, j \in 1..Len(out) :
       /\ IsStart(out[i]) /\ out[i].kind = "text"
       /\ IsStart(out[j]) /\ out[j].kind = "tool_use"
       /\ \E k \in (i + 1)..Len(out) : IsStop(out[k]) /\ out[k].index = out[i].index
       /\ \E k \in (j + 1)..Len(out) : IsStop(out[k]) /\ out[k].index = out[j].index

\* C3: every content_block_start is followed, before the message_delta or
\* error event of the stream, by exactly one content_block_stop with the
\* same index.
C3_EveryStartStopped ==
  \A m \in Positions("message_delta") \cup Positions("error") :
    \A i \in 1..(m - 1) :
      IsStart(out[i]) =>
        Cardinality({k \in (i + 1)..(m - 1) :
                       IsStop(out[k]) /\ out[k].index = out[i].index}) = 1

\* C4: no content_block_start is emitted while a block of another kind
\* is still open.
C4_OutgoingBlockClosedFirst ==
  \A j \in 1..Len(out) :
    IsStart(out[j]) =>
      ~\E i \in 1..(j - 1) : OpenBefore(i, j) /\ out[i].kind # out[j].kind

\* C5: the indices of the content_block_start events of a stream are
\* strictly increasing in emission order.
C5_StartIndicesIncrease ==
  \A i, j \in 1..Len(out) :
    (i < j /\ IsStart(out[i]) /\ IsStart(out[j])) => out[i].index < out[j].index

IsMissingReport(e) == IsDelta(e) /\ e.note = "missing required parameters"

\* C6: a tool call reported with 'missing required parameters: ' is
\* reported in a single text block, and no content_block_start of type
\* tool_use and no input_json_delta is emitted for that call anywhere in
\* the stream.
C6_NoBrokenToolUse ==
  \A j \in 1..Len(out) :
    IsMissingReport(out[j]) =>
      /\ out[j].kind = "text_delta"
      /\ \A k \in 1..Len(out) : (IsMissingReport(out[k]) /\ out[k].ref = out[j].ref) => k = j
      /\ \A k \in 1..Len(out) :
           out[k].kind \in {"tool_use", "input_json_delta"} => out[k].ref # out[j].ref

\* C7: once the client has disconnected from a stream in progress, the
\* body of finalize has run exactly once: the disconnect itself makes it
\* run, and it never runs twice.
C7_DisconnectFinalizesOnce ==
  (Converting /\ cancelled) => finalizeRuns = 1

\* C8: the token-accounting update is performed at most once per stream.
C8_TokenUpdateAtMostOnce == tokenUpdates <= 1

\* The update was performed for a stream whose client disconnected and
\* whose upstream went on delivering until its end.
C8_Witness ==
  /\ tokenUpdates = 1
  /\ cancelled
  /\ readAfterCancel
  /\ pc = "end"

\* C9: when the client cancels the response stream while the upstream is
\* being read, the cancel closes the upstream reader and finalises the
\* stream with reason error, and from then on no upstream chunk is read
\* or processed for that stream.
C9_CancelClosesReader ==
  [][/\ (Converting /\ ~cancelled /\ cancelled' /\ pc = "read") =>
          (reader' # "reading" /\ state'.finalized /\ reason' = "error")
     /\ (Converting /\ cancelled) =>
          (nChunks' = nChunks /\ readAfterCancel' = readAfterCancel)]_vars

\* C10: a stream whose upstream read failed, the client being connected,
\* ends with every block stopped, then exactly one error event, then the
\* [DONE] sentinel, and is closed.
C10_ErrorFinalisation ==
  (Converting /\ pc = "end" /\ reason = "error" /\ ~cancelled) =>
    /\ streamClosed
    /\ Cardinality(Positions("error")) = 1
    /\ Len(out) >= 2
    /\ out[Len(out)] = DoneEv
    /\ out[Len(out) - 1] = ErrorEv
    /\ \A i \in 1..(Len(out) - 2) :
         IsStart(out[i]) =>
           \E k \in (i + 1)..(Len(out) - 2) : IsStop(out[k]) /\ out[k].index = out[i].index

----------------------------------------------------------------------------
\* C11: a data line that does not parse is skipped: the step that reads it
\* sends no event, changes nothing of the stream's state, does not run
\* finalize and leaves the reader loop where it was, so that the lines after
\* it meet the state they would have met without it.
C11_MalformedLineSkipped ==
  [][(Converting /\ lastMalformed' # lastMalformed) =>
        /\ out' = out
        /\ state' = state
        /\ pc' = pc /\ pc = "read"
        /\ reader' = reader
        /\ reason' = reason
        /\ finalizeRuns' = finalizeRuns
        /\ isClosed' = isClosed
        /\ streamClosed' = streamClosed]_vars

\* A stream whose first line was malformed, whose second line was a text
\* delta and which then ended with [DONE]: the client got what the stream
\* without the first line produces.
C11_Witness ==
  /\ Converting
  /\ lastMalformed = 1
  /\ nChunks = 2
  /\ pc = "end"
  /\ reason = "done"
  /\ out = <<MessageStart, PingEv, BlockStart(0, "text", NoRef),
             BlockDelta(0, "text_delta", NoRef, "text"), BlockStop(0),
             MessageDelta("end_turn"), MessageStop, DoneEv>>

----------------------------------------------------------------------------
\* C12: the message_delta of a stream carries the stop reason tool_use
\* exactly when a tool_use block was started in that stream (from a
\* structured call, a repaired one or one extracted from text), and
\* end_turn otherwise.
C12_StopReasonMatchesToolUse ==
  Converting =>
    \A j \in Positions("message_delta") :
      (out[j].kind = "tool_use") <=>
        (\E i \in 1..(j - 1) : IsStart(out[i]) /\ out[i].kind = "tool_use")

----------------------------------------------------------------------------
\* C13: when the text deltas of a Grok-family stream are exactly one
\* complete <xai:function_call> element and the stream then ends with
\* [DONE], the client receives message_start, ping, the start of a tool_use
\* block at index 0, its input_json_delta, its stop, message_delta with stop
\* reason tool_use, message_stop and [DONE], and no text block.

\* Type, index and kind of each event of a sequence.
Shape(seq) == [j \in 1..Len(seq) |-> <<seq[j].type, seq[j].index, seq[j].kind>>]

C13_GrokXmlCallBecomesToolUse ==
  (/\ handler \in {"compat", "openrouter"}
   /\ xaiCalls = 1 /\ nChunks = 1
   /\ nPings = 0 /\ ~cancelled
   /\ pc = "end" /\ reason = "done")
  => Shape(out) = << <<"message_start", -1, "">>,
                     <<"ping", -1, "">>,
                     <<"content_block_start", 0, "tool_use">>,
                     <<"content_block_delta", 0, "input_json_delta">>,
                     <<"content_block_stop", 0, "">>,
                     <<"message_delta", -1, "tool_use">>,
                     <<"message_stop", -1, "">>,
                     <<"[DONE]", -1, "">> >>

----------------------------------------------------------------------------
\* Routing properties

\* A request was served by a server that is not in monitor mode.
Routed == last # NoRequest /\ ~monitorMode

\* The last target starts with one of the prefixes head/.
TargetHasPrefix(heads) == last.target.head \in heads /\ last.target.sep = "/"

\* C14: for every requested model the router returns a handler, whatever
\* credential variables are set: no request ends with the router failing
\* to select one.
C14_RouterAlwaysSelects ==
  last # NoRequest => (last.status = 200 /\ last.handler # NoInstance)

\* C15: a model oai/x is served by the direct OpenAI handler and a model
\* openai/x by the aggregator handler.
C15_OpenAiPrefixes ==
  (Routed /\ last.status = 200) =>
    /\ TargetHasPrefix({"oai"}) => last.handler.kind = "openai"
    /\ TargetHasPrefix({"openai"}) => last.handler.kind = "openrouter"

\* C16: a model mmax/x, mm/x, kimi/x or moonshot/x is served by a handler
\* of the Anthropic-compatible dialect, never by the aggregator handler.
C16_AnthropicCompatPrefixes ==
  (Routed /\ last.status = 200 /\ TargetHasPrefix({"mmax", "mm", "kimi", "moonshot"})) =>
    last.handler.kind = "anthropic-compat"

\* C17: in monitor mode every request gets the native handler; otherwise,
\* when a model was explicitly selected, it is the target of every request
\* and the handler that serves the request is one made for it.
C17_MonitorThenOverride ==
  last # NoRequest =>
    /\ monitorMode => (last.handler = nativeHandler /\ last.status = 200)
    /\ (~monitorMode /\ model # NoModel) =>
         /\ last.target = model
         /\ last.status = 200 => last.handler.target \in {model, NoModel}

\* A server in monitor mode, with a selected model and a profile map, was
\* asked for a Gemini model and served it with the native handler.
C17_Witness ==
  /\ monitorMode
  /\ model # NoModel
  /\ modelMap.defined
  /\ last.requested = M("g", "/", "gemini-2.5-flash")
  /\ last.handler = nativeHandler

\* The keywords of the profile mapping each requested model contains when
\* case is ignored.
HasKeyword(m, kw) ==
  <<m, kw>> \in { <<M("claude-3-opus-20240229", "", ""), "opus">>,
                  <<M("Claude-Sonnet-4", "", ""), "sonnet">>,
                  <<M("sonnet-or-opus", "", ""), "sonnet">>,
                  <<M("sonnet-or-opus", "", ""), "opus">>,
                  <<M("anthropic", "/", "claude-3-haiku"), "haiku">> }

MapEntry(kw) ==
  CASE kw = "opus" -> modelMap.opus
    [] kw = "sonnet" -> modelMap.sonnet
    [] OTHER -> modelMap.haiku

\* The first of opus, sonnet, haiku among the given keywords, "" if none.
FirstOf(kws) ==
  IF "opus" \in kws THEN "opus"
  ELSE IF "sonnet" \in kws THEN "sonnet"
  ELSE IF "haiku" \in kws THEN "haiku"
  ELSE ""

ProfileMapped == Routed /\ model = NoModel /\ modelMap.defined

\* C18 as stated: with a profile map and no selected model, the first
\* keyword the requested model contains, case ignored, makes the target
\* the model mapped to it; without such a keyword the target is the
\* requested model.
C18_FirstKeywordSubstitutes ==
  ProfileMapped =>
    LET kw == FirstOf({k \in {"opus", "sonnet", "haiku"} : HasKeyword(last.requested, k)})
    IN last.target = (IF kw = "" THEN last.requested ELSE MapEntry(kw))

\* C18 amended: only the keywords the profile map has an entry for count;
\* the first of them that the requested model contains, case ignored,
\* makes the target the model mapped to it, and without one the target is
\* the requested model.
C18_FirstMappedKeywordSubstitutes ==
  ProfileMapped =>
    LET kw == FirstOf({k \in {"opus", "sonnet", "haiku"} :
                         HasKeyword(last.requested, k) /\ MapEntry(k) # NoModel})
    IN last.target = (IF kw = "" THEN last.requested ELSE MapEntry(kw))

\* With every entry mapped, a request for Claude-Sonnet-4 was routed to the
\* model mapped to sonnet.
C18_Witness ==
  /\ ProfileMapped
  /\ modelMap.opus # NoModel
  /\ last.requested = M("Claude-Sonnet-4", "", "")
  /\ last.target = modelMap.sonnet

\* The last request was a /v1/messages request whose target resolves to
\* the Gemini or the direct OpenAI provider while the provider's
\* credential variable is unset.
RemoteWithoutKey ==
  /\ Routed
  /\ last.endpoint = "/v1/messages"
  /\ resolveRemoteProvider(last.target).name \in {"gemini", "openai"}
  /\ resolveRemoteProvider(last.target).apiKeyEnvVar \notin env

\* C19: such a request is answered with status 500 and an error whose
\* message names the variable; no handler is made for the target and none
\* handles the request, so nothing is sent upstream.
C19_MissingKeyIsReported ==
  RemoteWithoutKey =>
    /\ last.status = 500
    /\ last.message = resolveRemoteProvider(last.target).apiKeyEnvVar
    /\ ~last.handled
    /\ \A i \in instances : i.target # last.target

C19_Witness ==
  /\ RemoteWithoutKey
  /\ last.target = M("oai", "/", "gpt-4o")
  /\ last.message = "OPENAI_API_KEY"

\* C20: no two handler instances were made for the same target model, and
\* a request that is served by a handler other than the native one is
\* served by the one instance of its target.
C20_OneInstancePerTarget ==
  /\ \A i, j \in instances : i.target = j.target => i = j
  /\ (Routed /\ last.status = 200 /\ last.handler # nativeHandler) =>
       /\ last.handler \in instances
       /\ last.handler.target = last.target

\* The second request was served by the aggregator handler made for the
\* first.
C20_Witness ==
  /\ nRequests = 2
  /\ last.status = 200
  /\ last.handler.kind = "openrouter"
  /\ ~last.made
  /\ Cardinality(instances) = 2

----------------------------------------------------------------------------
\* Release of the two connections, repeated finalisation, block order

\* C28: when a converting stream is finalised and the client has not
\* disconnected, the upstream body reader is no longer held open (it reached
\* the end of the body, failed, or was released or cancelled) and the
\* client response stream is closed.
C28_BothConnectionsClosed ==
  (Converting /\ pc = "end" /\ ~cancelled) =>
    (reader \in {"ended", "failed"} /\ streamClosed)

\* C29: the body of finalize runs at most once per stream, and an
\* invocation of finalize that follows the first one emits no event and
\* changes neither the streaming state, the recorded reason nor the token
\* accounting.
C29_FinalizeBodyRunsOnce ==
  [][Converting =>
       /\ finalizeRuns' <= 1
       /\ (pc = "finalize" /\ pc' = "end" /\ ~isClosed') =>
            /\ out' = out
            /\ state' = state
            /\ reason' = reason
            /\ tokenUpdates' = tokenUpdates
            /\ finalizeRuns' = finalizeRuns]_vars

\* A stream on which finalize was invoked a second time, by the catch of
\* start(), after its body had run once.
C29_Witness ==
  /\ Converting
  /\ pc = "end"
  /\ state.finalized
  /\ finalizeRuns = 1
  /\ ~isClosed

\* C30: in the events of one stream no thinking block is opened after a
\* text block was opened.
C30_NoThinkingAfterText ==
  Converting =>
    \A i, j \in 1..Len(out) :
      (i < j /\ IsStart(out[i]) /\ out[i].kind = "text" /\ IsStart(out[j]))
        => out[j].kind # "thinking"


----------------------------------------------------------------------------
\* Token tracking

Inputs(seq) == [n \in 1..Len(seq) |-> seq[n].input]
Outputs(seq) == [n \in 1..Len(seq) |-> seq[n].output]

\* C26: after the streams reported so far, a cloud handler's running input
\* count is the sum of the reported input counts, the local handler's is
\* the input count reported last, and both kinds' running output count is
\* the sum of the reported output counts.
C26_SessionTokenCounts ==
  /\ session.sessionOutputTokens = Sum(Outputs(session.reported))
  /\ session.kind = "remote" =>
       session.sessionInputTokens = Sum(Inputs(session.reported))
  /\ (session.kind = "local" /\ session.reported # <<>>) =>
       session.sessionInputTokens = session.reported[Len(session.reported)].input


----------------------------------------------------------------------------
\* History pruning

Retained(m) == \E n \in 1..Len(prune.pruned) : prune.pruned[n] = m

MessagesOf(role) ==
  {n \in 1..Len(prune.messages) : prune.messages[n].role = role}

FirstOfRole(role) ==
  prune.messages[CHOOSE n \in MessagesOf(role) : \A k \in MessagesOf(role) : n <= k]

\* C22: when pruning dropped messages, the pruned list contains the system
\* message the list starts with, if it starts with one, and the first user
\* message of the list, at whatever position it stands.
C22_FirstSystemAndUserRetained ==
  (prune.done /\ prune.removedCount > 0) =>
    /\ prune.messages[1].role = "system" => Retained(prune.messages[1])
    /\ MessagesOf("user") # {} => Retained(FirstOfRole("user"))

\* C23: every tool-result message of the pruned list has the assistant
\* message whose tool_calls hold its tool_call_id in the pruned list.
C23_ResultsKeepTheirParent ==
  prune.done =>
    \A n \in 1..Len(prune.pruned) :
      prune.pruned[n].role = "tool" =>
        \E k \in 1..Len(prune.pruned) :
          /\ prune.pruned[k].role = "assistant"
          /\ prune.pruned[n].tool_call_id \in prune.pruned[k].tool_calls


----------------------------------------------------------------------------
\* Gemini tool results

RECURSIVE PartsOf(_)
PartsOf(messages) ==
  IF messages = <<>> THEN <<>> ELSE Head(messages).parts \o PartsOf(Tail(messages))

ResultsIn(messages) ==
  {BlocksOf(messages)[n] :
     n \in {k \in 1..Len(BlocksOf(messages)) : BlocksOf(messages)[k].type = "tool_result"}}

RespondedAs(block, name) ==
  \E n \in 1..Len(PartsOf(gemini.messages)) :
    PartsOf(gemini.messages)[n] = Part("functionResponse", name, block.content)

\* C21: every tool_result of the converted request that answers a tool_use
\* of this or an earlier request to the handler became a functionResponse
\* named after that tool, and every tool_use id seen so far still has its
\* name in toolCallMap.
C21_ResultNamedAfterItsCall ==
  /\ \A id \in gemini.used :
       id \in DOMAIN gemini.toolCallMap /\ gemini.toolCallMap[id] = NameOf(id)
  /\ \A block \in ResultsIn(gemini.request) :
       block.tool_use_id \in gemini.used => RespondedAs(block, NameOf(block.tool_use_id))

\* The second request holds a tool_result and not the tool_use it answers,
\* which an earlier request held.
C21_Witness ==
  /\ gemini.n = 2
  /\ ResultsIn(gemini.request) # {}
  /\ ToolUsesOf(gemini.request) = {}
  /\ \A block \in ResultsIn(gemini.request) :
       RespondedAs(block, NameOf(block.tool_use_id))


----------------------------------------------------------------------------
\* Upstream attempts and timeouts

\* C24: a client request to a cloud handler makes at most 5 upstream
\* attempts, and when its last attempt was answered with status 429 the
\* client is answered with a rate_limit_error.
C24_RetryBudgetAndRateLimitError ==
  /\ retry.attempts <= 5
  /\ (retry.pc = "idle" /\ retry.outcomes # <<>>
        /\ retry.outcomes[Len(retry.outcomes)] = "429")
       => retry.answer.type = "rate_limit_error"

\* C25: no upstream call is still pending after ten minutes in which the
\* upstream sent nothing, before the headers or while the body is read.
C25_StalledCallIsAborted ==
  call.phase \in {"headers", "body"} => call.silence = 0


----------------------------------------------------------------------------
\* Health probe

\* C27: a request to a local handler that sends no probe relies on a
\* health result obtained at most 60 seconds before the request.
C27_ProbeResultExpires ==
  (health.last.instance # 0 /\ health.last.probes = <<>>)
    => Ms(health.last.at - health.last.obtainedAt) <= 60000


----------------------------------------------------------------------------
\* Keep-alive pings and the end of the stream

\* C31: a ping is emitted only while the stream is not finalised: in no
\* step taken after finalize has begun (its await of afterStreamComplete
\* included) or after the client cancelled is a further ping emitted.
C31_NoPingOnceFinalizing ==
  [][(Converting /\ (state.finalized \/ cancelled)) => nPings' = nPings]_vars


----------------------------------------------------------------------------
\* Buffered structured tool calls

\* The events of the client stream that belong to the structured call ref.
ToolUseEvents(ref) ==
  {j \in 1..Len(out) : out[j].ref = ref /\ out[j].kind \in {"tool_use", "input_json_delta"}}

\* Positions k, k+1, k+2 hold a complete tool_use block of the call ref at
\* index i: its start, one input_json_delta with the whole arguments, its stop.
WholeBlockAt(k, i, ref) ==
  /\ k + 2 <= Len(out)
  /\ out[k] = BlockStart(i, "tool_use", ref)
  /\ out[k + 1] \in {BlockDelta(i, "input_json_delta", ref, n) : n \in {"args", "repaired"}}
  /\ out[k + 2] = BlockStop(i)

----------------------------------------------------------------------------
\* Withheld text

\* C33: text withheld on the text path (a structured tool-call signature in
\* an accumulated text shorter than 1000 characters) is converted at
\* finalisation: the client of such a stream receives, before message_delta,
\* a tool_use block built from the withheld text.
C33_WithheldTextConverted ==
  (handler = "compat" /\ state.acc.sig /\ ~state.acc.long) =>
    \A j \in Positions("message_delta") :
      \E k \in 1..(j - 1) : IsStart(out[k]) /\ out[k].kind = "tool_use" /\ out[k].ref = Extracted


\* C37: every structured tool call whose function name was received is, by
\* message_stop, either emitted as a tool_use block or reported in a
\* validation-error text block, whichever way the upstream ended.
C37_NamedCallEmittedOrReported ==
  (handler = "compat" /\ Positions("message_stop") # {}) =>
    \A p \in 1..Len(state.tools) :
      \E j \in 1..Len(out) :
        /\ out[j].ref = state.tools[p].key
        /\ \/ IsStart(out[j]) /\ out[j].kind = "tool_use"
           \/ IsDelta(out[j]) /\ out[j].kind = "text_delta"
                /\ out[j].note = "missing required parameters"


\* C38: every stream is terminated on the client side on every path, also
\* when something awaited or called inside finalize throws after the
\* finalized flag was set: once start() has returned, the ping timer is
\* cleared and the client stream is closed (by the handler or by the
\* client's own disconnect).
C38_EveryStreamTerminates ==
  (Converting /\ pc = "end") => (~pingTimer /\ (streamClosed \/ cancelled))


----------------------------------------------------------------------------
\* Requests after a failed probe

\* C40: after the health probe of a local handler failed, no later request
\* on that handler is forwarded to the upstream chat endpoint unless a probe
\* succeeded in between: a request that is forwarded comes from a handler
\* whose latest health verdict is a success.
C40_NoForwardAfterFailedProbe ==
  (health.last.instance # 0 /\ health.forwarded)
    => health.handlers[health.last.instance].isHealthy


----------------------------------------------------------------------------
\* When the history is pruned

\* C36: on every request to a local handler at which the context usage is
\* above 80 % and the converted messages are more than 5, the messages sent
\* upstream are the pruned ones, whether or not an earlier request of the
\* handler was pruned.
C36_PrunedOnEveryHighUsageRequest ==
  (pruning.n > 0 /\ pruning.last.usageHigh /\ Len(pruning.last.messages) > 5)
    => pruning.last.sent = pruneConversationHistory(pruning.last.messages).pruned


----------------------------------------------------------------------------
\* Adapter state across requests

\* What a stream fed the deltas fed[i..] gets from an adapter in state a
\* that no other request touches.
RECURSIVE Alone(_, _, _, _, _)
Alone(kind, a, fed, i, got) ==
  IF i > Len(fed) THEN got
  ELSE LET res == AdapterProcessTextContent(kind, a, fed[i])
       IN Alone(kind, res.a, fed, i + 1,
                [text |-> got.text \o res.cleanedText,
                 calls |-> got.calls + res.extractedToolCalls])

ProcessedAsIfAlone(k) ==
  LET st == adapter.streams[k]
  IN [text |-> st.text, calls |-> st.calls]
       = Alone(adapter.kind, NewAdapter, st.fed, 1, [text |-> <<>>, calls |-> 0])

\* C34: the step that starts a request leaves the adapter of the handler in
\* the state of a new adapter (empty Grok XML buffer, reasoning suppression
\* off, no thought signatures), and as long as every request started after
\* the stream of the one before it had ended, each stream is processed as
\* by an adapter that served no earlier request.
C34_AdapterResetPerRequest ==
  [][/\ adapter'.started # adapter.started => adapter'.state = NewAdapter
     /\ ~adapter'.overlapped =>
          \A k \in 1..MaxFlights : adapter'.streams[k].phase # "none" =>
            [text |-> adapter'.streams[k].text, calls |-> adapter'.streams[k].calls]
              = Alone(adapter'.kind, NewAdapter, adapter'.streams[k].fed, 1,
                      [text |-> <<>>, calls |-> 0])]_vars

\* A second request whose stream got text through, started after the first
\* stream had ended with an unfinished element in the Grok buffer or with
\* the Gemini suppression on.
C34_Witness ==
  /\ adapter.started = 2
  /\ ~adapter.overlapped
  /\ adapter.streams[1].phase = "done"
  /\ adapter.streams[1].fed \in {<<"open">>, <<"reasoning">>}
  /\ adapter.streams[2].fed \in {<<"text">>, <<"continuation">>}
  /\ adapter.streams[2].text = adapter.streams[2].fed

\* C39: with two requests in flight on one handler, the reset and the
\* preparation done for the second leave the processing of the first
\* stream as it would be without the second request: every stream gets
\* the text and the calls an adapter of its own would give it.
C39_ConcurrentStreamsIndependent ==
  \A k \in 1..MaxFlights : adapter.streams[k].phase # "none" => ProcessedAsIfAlone(k)


----------------------------------------------------------------------------
\* Reasoning details kept for later requests

\* The stream delivered at least one reasoning_details entry and at least
\* one tool-call id.
Qualifies(k) ==
  /\ middleware.streams[k].delivered.reasoning_details # <<>>
  /\ middleware.streams[k].delivered.tool_call_ids # {}

\* C35: in every request made after a stream that delivered reasoning
\* details and a tool-call id has completed, each assistant message carrying
\* a tool call with one of the stream's ids has exactly the reasoning
\* details the stream delivered, in order; and the cache holds one entry
\* for each such completed stream and none for any other.
C35_ReasoningDetailsReattached ==
  /\ \A k \in middleware.last.after :
       Qualifies(k) =>
         \A i \in 1..Len(middleware.last.messages) :
           LET msg == middleware.last.messages[i]
           IN (msg.role = "assistant"
                 /\ msg.tool_calls \cap middleware.streams[k].delivered.tool_call_ids # {})
                => msg.reasoning_details = middleware.streams[k].delivered.reasoning_details
  /\ LET kept == SelectSeq(middleware.completed, LAMBDA k : Qualifies(k))
     IN middleware.persistentReasoningDetails
          = [i \in 1..Len(kept) |-> middleware.streams[kept[i]].delivered]

\* A request made after a stream with two reasoning_details entries and a
\* tool-call id had completed, with an assistant message carrying that call.
C35_Witness ==
  \E k \in middleware.last.after, i \in 1..Len(middleware.last.messages) :
    /\ Len(middleware.streams[k].delivered.reasoning_details) = 2
    /\ middleware.last.messages[i].tool_calls \cap middleware.streams[k].delivered.tool_call_ids # {}
    /\ middleware.last.messages[i].reasoning_details
         = middleware.streams[k].delivered.reasoning_details

====
